---------------------------- MODULE Spec2Model ----------------------------
(***************************************************************************)
(* The virtualization engine of react-virtual: the useVirtual hook of      *)
(* src/packages/react-virtual/src/index.ts (measurement store, range       *)
(* locator, default selection policy, measurement feedback and the         *)
(* imperative scroll operations) over its two scroll sources, the element  *)
(* one and the window one.                                                 *)
(*                                                                         *)
(* Indices are 0-based as in the source; a JavaScript array is a TLA+      *)
(* sequence whose element i is seq[i + 1].  A render of the hook is split  *)
(* where React splits it: the hook body (Render) and, after the ref        *)
(* callbacks of the commit, its layout effect (LayoutEffect).              *)
(***************************************************************************)
EXTENDS Integers, Sequences, FiniteSets, TLC

\* ------------------------------------------------------------ bounds
MaxCount == 3      \* item counts 0..MaxCount
MaxOffset == 2     \* scroll positions and offsets a caller or user supplies
MaxRaf == 2        \* animation-frame callbacks waiting at one time
Viewport == 2      \* the viewport size the size observer reports
MaxDrift == 4      \* how far the tracked offset runs from the reported one
MaxOverscan == 2   \* the overscans a caller asks of the default policy

\* ------------------------------------------------------------ domains
NoSize == -1       \* measuredCache[key] is undefined
MeasuredSizes == {1, 2}   \* the sizes an element measures
Paddings == {0, 1}
Alignments == {"start", "center", "end", "auto"}
Reasons == {"ToIndex", "ToOffset", "SizeChanged"}

Max(a, b) == IF a >= b THEN a ELSE b
Min(a, b) == IF a <= b THEN a ELSE b

\* element i of a JavaScript array
At(arr, i) == arr[i + 1]
\* arr[i] is not undefined
Has(arr, i) == i >= 0 /\ i < Len(arr)

\* ------------------------------------------------------------ options
\* An estimator is a function value; its identity is what React compares.
\*   0  the default, () => 50
\*   1  a caller's () => 2
\*   2  a caller's index => 1 + index % 2
defaultEstimateSize == 50
EstimateSize(e, i) ==
  CASE e = 0 -> defaultEstimateSize
    [] e = 1 -> 2
    [] OTHER -> 1 + (i % 2)

\*   0  the default, index => index
\*   1  a caller's index => MaxCount - index (another injective key map)
KeyExtractor(k, i) == IF k = 0 THEN i ELSE MaxCount - i

VARIABLES
  size, estimateSize, overscan, paddingStart, paddingEnd,
  keyExtractor, rangeExtractor,        \* the options of the latest render
  measuredCache,                       \* the state the latest render read
  queuedCache, cacheDirty,             \* setMeasuredCache calls not yet rendered
  latestRef,                           \* scrollOffset, outerSize, measurements, totalSize
  scrollOffsetWithAdjustmentsRef,
  pendingMeasuredCacheIndexesRef,
  mountedRef,
  effectDeps,                          \* the estimateSize its layout effect last ran with
  range, indexes, virtualItems,        \* what the latest render produced
  scrollTop,                           \* the scroll position of the element or window
  scrollOffset,                        \* the scroll source's reported offset
  outerSize,                           \* the scroll source's reported viewport size
  useWindow,                           \* windowRef !== undefined
  horizontal,                          \* the axis option the caller passes
  windowRef,                           \* windowRef.current: 0 is null, 1 the window,
                                       \* 2 another window
  parentRef,                           \* parentRef.current: 0 is null, 1 the container,
                                       \* 2 another element
  parentTop,                           \* where the container lies in the document
  element,                             \* the element state of the scroll hook in use
  effectElement,                       \* the element its scroll effect last ran with
  effectKey,                           \* the axis its scroll effect last ran with
  listeners,                           \* the scroll listeners registered on the targets
  parentOffsetRef,
  scrollPending,                       \* a scroll event of the window is to be dispatched
  rafQueue,                            \* requestAnimationFrame callbacks not yet run
  isMountedRef, isScrolling,           \* index.js: the mounted flag, the scrolling state,
  scrollingIdRef,                      \* the handle of its settle timer (0 is null)
  timers,                              \* and the timeouts that wait, with the time each
                                       \* has waited
  writes,                              \* scroll writes the latest step issued
  phase                                \* "unmounted", "commit" or "idle"; "call" and
                                       \* "return" around one call of a pure function

options == <<size, estimateSize, overscan, paddingStart, paddingEnd,
             keyExtractor, rangeExtractor>>
cacheVars == <<measuredCache, queuedCache, cacheDirty>>
refVars == <<latestRef, scrollOffsetWithAdjustmentsRef,
             pendingMeasuredCacheIndexesRef, mountedRef, effectDeps>>
outputs == <<range, indexes, virtualItems>>
scrollVars == <<scrollTop, scrollOffset, outerSize, scrollPending>>
sourceVars == <<useWindow, horizontal, windowRef, parentRef, parentTop, element,
                effectElement, effectKey, listeners, parentOffsetRef>>
settleVars == <<isMountedRef, isScrolling, scrollingIdRef, timers>>
vars == <<options, cacheVars, refVars, outputs, scrollVars, sourceVars, settleVars,
          rafQueue, writes, phase>>

\* The measured cache is an object from keys to sizes: {} at first.
EmptyCache == [key \in {} |-> NoSize]
\* cache[key]
Lookup(cache, key) == IF key \in DOMAIN cache THEN cache[key] ELSE NoSize
\* { ...old, [key]: measuredSize }
Store(old, key, measuredSize) ==
  [x \in DOMAIN old \cup {key} |-> IF x = key THEN measuredSize ELSE old[x]]

\* ------------------------------------------------------------ measurement store
\* One Measurement; NoSpan stands for measurements[i] being undefined.
Span(i, start, sz, key) ==
  [index |-> i, start |-> start, size |-> sz, end |-> start + sz, key |-> key]
NoSpan == [index |-> -1, start |-> -1, size |-> -1, end |-> -1, key |-> -1]

\* The memo with the measured sizes left unread.
SizeOfEstimateOnly(i, cache, e, k) == EstimateSize(e, i)

\* The size the memo gives item i: the measured size of its key, else the
\* estimate.
SizeOf(i, cache, e, k) ==
  LET measuredSize == Lookup(cache, KeyExtractor(k, i))
  IN IF measuredSize # NoSize THEN measuredSize ELSE EstimateSize(e, i)

\* The one element of a singleton.
Only(S) == CHOOSE x \in S : TRUE

\* The spans the loop of the memo writes for the indices lo .. hi in turn, the
\* span before lo ending at start.  The loop is unfolded by halves, the second
\* half starting where the first one, computed once, ends: that keeps the
\* evaluation of a long list shallow; the spans and their order are those of
\* the loop.
RECURSIVE SpansFrom(_, _, _, _, _, _)
SpansFrom(lo, hi, start, cache, e, k) ==
  IF lo > hi THEN <<>>
  ELSE IF lo = hi
  THEN <<Span(lo, start, SizeOf(lo, cache, e, k), KeyExtractor(k, lo))>>
  ELSE Only({left \o SpansFrom((lo + hi) \div 2 + 1, hi, left[Len(left)].end,
                               cache, e, k) :
             left \in {SpansFrom(lo, (lo + hi) \div 2, start, cache, e, k)}})

\* The loop of the measurements memo from index i on, m holding indices < i.
FillMeasurements(m, i, n, cache, e, k, padStart) ==
  m \o SpansFrom(i, n - 1, IF Has(m, i - 1) THEN At(m, i - 1).end ELSE padStart,
                 cache, e, k)

SetMin(S) == CHOOSE x \in S : \A y \in S : x <= y

\* measurements.slice(0, min)
Slice(arr, min) == SubSeq(arr, 1, Min(min, Len(arr)))

\* The measurements memo of index.js: every span derived anew, from index 0.
FullMeasurements(n, cache, e, k, padStart) ==
  FillMeasurements(<<>>, 0, n, cache, e, k, padStart)

\* The memo with the leading padding forgotten where the first span is derived.
MeasurementsNoPadding(prev, pending, n, cache, e, k, padStart) ==
  LET min == IF pending # {} THEN SetMin(pending) ELSE 0
  IN FillMeasurements(Slice(prev, min), min, n, cache, e, k, 0)

\* The body of the measurements memo: the spans below the lowest pending index
\* are taken from the previous measurements, the rest are derived.
Measurements(prev, pending, n, cache, e, k, padStart) ==
  LET min == IF pending # {} THEN SetMin(pending) ELSE 0
  IN FillMeasurements(Slice(prev, min), min, n, cache, e, k, padStart)

\* (measurements[size - 1]?.end || 0) + paddingEnd
TotalSize(m, n, padEnd) ==
  (IF Has(m, n - 1) THEN At(m, n - 1).end ELSE 0) + padEnd

\* ------------------------------------------------------------ range locator
RECURSIVE findNearestBinarySearch(_, _, _, _)
findNearestBinarySearch(low, high, m, value) ==
  IF low <= high
  THEN LET middle == (low + high) \div 2
           currentValue == At(m, middle).start
       IN IF currentValue < value
          THEN findNearestBinarySearch(middle + 1, high, m, value)
          ELSE IF currentValue > value
          THEN findNearestBinarySearch(low, middle - 1, m, value)
          ELSE middle
  ELSE IF low > 0 THEN low - 1 ELSE 0

RECURSIVE AdvanceEnd(_, _, _, _)
AdvanceEnd(end, last, m, limit) ==
  IF end < last /\ At(m, end).end < limit
  THEN AdvanceEnd(end + 1, last, m, limit)
  ELSE end

\* The locator with the end of the viewport taken as covered.
RECURSIVE AdvanceEndInclusive(_, _, _, _)
AdvanceEndInclusive(end, last, m, limit) ==
  IF end < last /\ At(m, end).end <= limit
  THEN AdvanceEndInclusive(end + 1, last, m, limit)
  ELSE end

calculateRangeInclusive(m, outer, offset) ==
  LET last == Len(m) - 1
      start == findNearestBinarySearch(0, last, m, offset)
  IN [start |-> start, end |-> AdvanceEndInclusive(start, last, m, offset + outer)]

calculateRange(m, outer, offset) ==
  LET last == Len(m) - 1
      start == findNearestBinarySearch(0, last, m, offset)
  IN [start |-> start, end |-> AdvanceEnd(start, last, m, offset + outer)]

\* ------------------------------------------------------------ selection policy
\* The policy with the upper clamp forgotten.
defaultRangeExtractorUnclamped(r) ==
  LET start == Max(r.start - r.overscan, 0)
      end == r.end + r.overscan
  IN [j \in 1 .. (end - start + 1) |-> start + j - 1]

defaultRangeExtractor(r) ==
  LET start == Max(r.start - r.overscan, 0)
      end == Min(r.end + r.overscan, r.size - 1)
  IN [j \in 1 .. (end - start + 1) |-> start + j - 1]

\* The hook with the caller's selector ignored.
RangeExtractorDefaultOnly(x, r) == defaultRangeExtractor(r)

\* A range selector is a function value:
\*   0  defaultRangeExtractor
\*   1  the caller's () => [0, 1]
\*   2  a caller's () => [1, 0]
RangeExtractor(x, r) ==
  CASE x = 0 -> defaultRangeExtractor(r)
    [] x = 1 -> <<0, 1>>
    [] OTHER -> <<1, 0>>

\* The virtualItems memo: the span of every selected index (the measureRef of
\* an item is the action MeasureRef on its position).
VirtualItems(idx, m) ==
  [j \in 1 .. Len(idx) |-> IF Has(m, idx[j]) THEN At(m, idx[j]) ELSE NoSpan]

\* ------------------------------------------------------------ scroll source
\* parentRef.current[scrollKey] = offset: the element keeps its scroll position
\* inside its scrollable range, whose content is as long as the total size.
ElementScrollTo(offset) ==
  Max(0, Min(offset, latestRef.totalSize - latestRef.outerSize))

\* windowRef.current.scrollTo({ top: y }): the window keeps its scroll position
\* inside the scrollable range of a document that ends with the container.
WindowScrollTo(y) ==
  Max(0, Min(y, parentTop + latestRef.totalSize - latestRef.outerSize))

\* parentRef.current.getBoundingClientRect()[rectKey]: where the container lies
\* in the viewport of the window.
BoundingClientRect == parentTop - scrollTop

\* A scroll position is a whole number of pixels here: a write of a position
\* between two pixels (twice is twice the position) lands on either neighbour.
Landings(twice) == {twice \div 2, (twice + 1) \div 2}

\* The defaults of the options, for an item count n and an overscan o.
DefaultOptions(n, o) ==
  /\ size = n /\ estimateSize = 0 /\ overscan = o
  /\ paddingStart = 0 /\ paddingEnd = 0
  /\ keyExtractor = 0 /\ rangeExtractor = 0

\* No timeout waits.
NoTimers == [id \in {} |-> 0]

\* The state and the refs of a hook that has not rendered, latestRef and the
\* mounted flag, the scrolling state and the timer of index.js aside.
FreshHook ==
  /\ measuredCache = EmptyCache /\ queuedCache = EmptyCache /\ cacheDirty = FALSE
  /\ scrollOffsetWithAdjustmentsRef = 0
  /\ pendingMeasuredCacheIndexesRef = {}
  /\ mountedRef = FALSE /\ effectDeps = -1
  /\ indexes = <<>> /\ virtualItems = <<>>
  /\ rafQueue = <<>> /\ writes = <<>>

\* The state and the refs of a hook that has not rendered, latestRef aside:
\* index.js has useRef(false), useState(false), useRef(null).
FreshState ==
  /\ isMountedRef = FALSE /\ isScrolling = FALSE
  /\ scrollingIdRef = 0 /\ timers = NoTimers
  /\ FreshHook

\* The state after construction, the scroll source aside.
HookInit ==
  /\ DefaultOptions(0, 1)
  /\ FreshState
  /\ latestRef = [scrollOffset |-> 0, outerSize |-> 0,
                  measurements |-> <<>>, totalSize |-> 0]
  /\ range = [start |-> 0, end |-> 0]

\* No scroll effect has run: nothing listens, on the vertical axis.
Unsubscribed ==
  horizontal = FALSE /\ effectElement = -1 /\ effectKey = FALSE /\ listeners = <<>>

\* useDefaultScroll without a windowRef, parentRef holding the container: the
\* result is that of useElementScroll, useState(parentRef.current); the window
\* hook runs on an empty ref, whose element is null for good.
ElementSource ==
  /\ useWindow = FALSE /\ windowRef = 0 /\ parentRef = 1 /\ parentTop = 0
  /\ element = 1 /\ parentOffsetRef = 0
  /\ Unsubscribed

\* useDefaultScroll with a windowRef holding the window, the container (there
\* is one when parent is TRUE) lying at top in the document:
\* useState(windowRef.current), useRef(0).
WindowSource(top, parent) ==
  /\ useWindow = TRUE /\ windowRef = 1 /\ parentTop = top
  /\ parentRef = (IF parent THEN 1 ELSE 0)
  /\ element = 1 /\ parentOffsetRef = 0
  /\ Unsubscribed

\* Nothing is scrolled and the size observer reports a viewport of v.
Unscrolled(v) ==
  scrollTop = 0 /\ scrollOffset = 0 /\ outerSize = v /\ scrollPending = FALSE

\* The element is not scrolled and its observer reports a viewport of v.
ScrollInit(v) == Unscrolled(v) /\ ElementSource

Init == HookInit /\ ScrollInit(Viewport) /\ phase = "unmounted"

\* ------------------------------------------------------------ the hook body
\* One call of useVirtual with options o, reading the scroll source and the
\* queued state.  The measurements and the range are values computed once,
\* which is what binding them to the one element of a set says.
Render(o) ==
  /\ phase # "commit"
  /\ LET first == phase = "unmounted"
         adjusted == IF first \/ latestRef.scrollOffset # scrollOffset
                     THEN scrollOffset
                     ELSE scrollOffsetWithAdjustmentsRef
         cache == queuedCache
         recompute == \/ first
                      \/ cacheDirty
                      \/ o.estimateSize # estimateSize
                      \/ o.paddingStart # paddingStart
                      \/ o.size # size
                      \/ o.keyExtractor # keyExtractor
     IN \E m \in {IF recompute
                  THEN Measurements(latestRef.measurements,
                                    pendingMeasuredCacheIndexesRef, o.size, cache,
                                    o.estimateSize, o.keyExtractor, o.paddingStart)
                  ELSE latestRef.measurements} :
        \E r \in {calculateRange(m, outerSize, scrollOffset)} :
          LET total == TotalSize(m, o.size, o.paddingEnd)
              idx == RangeExtractor(o.rangeExtractor,
                       [start |-> r.start, end |-> r.end,
                        overscan |-> o.overscan, size |-> o.size])
          IN /\ scrollOffsetWithAdjustmentsRef' = adjusted
             /\ measuredCache' = cache
             /\ pendingMeasuredCacheIndexesRef' =
                  IF recompute THEN {} ELSE pendingMeasuredCacheIndexesRef
             /\ latestRef' = [scrollOffset |-> scrollOffset, outerSize |-> outerSize,
                              measurements |-> m, totalSize |-> total]
             /\ range' = r
             /\ indexes' = idx
             /\ virtualItems' = VirtualItems(idx, m)
  /\ size' = o.size /\ estimateSize' = o.estimateSize /\ overscan' = o.overscan
  /\ paddingStart' = o.paddingStart /\ paddingEnd' = o.paddingEnd
  /\ keyExtractor' = o.keyExtractor /\ rangeExtractor' = o.rangeExtractor
  /\ cacheDirty' = FALSE
  /\ writes' = <<>>
  /\ phase' = "commit"
  /\ UNCHANGED <<sourceVars, settleVars, queuedCache, mountedRef, effectDeps, scrollVars, rafQueue>>

\* A scroll listener: the target it is registered on and the axis its
\* onScroll reads.
Listener(target, axis) == [target |-> target, axis |-> axis]
Listening(target) == \E j \in 1 .. Len(listeners) : listeners[j].target = target

\* element.removeEventListener('scroll', onScroll) for the onScroll of the
\* latest run of the effect: the first listener of that target and axis goes.
RECURSIVE RemoveListener(_, _)
RemoveListener(ls, l) ==
  IF ls = <<>> THEN <<>>
  ELSE IF Head(ls) = l THEN Tail(ls)
  ELSE <<Head(ls)>> \o RemoveListener(Tail(ls), l)

\* The cleanup of the latest run of the scroll effect, which returned one when
\* its element was not null.
Cleanup ==
  IF effectElement > 0 THEN RemoveListener(listeners, Listener(effectElement, effectKey))
  ELSE listeners

\* The dependencies of the scroll effect, [element, scrollKey] and for the
\* window also rectKey and the parentRef object, are not those of its latest
\* run: the axis gives scrollKey and rectKey, parentRef is one object.
ScrollDepsChanged == effectElement # element \/ effectKey # horizontal

\* The layout effects of useWindowScroll with the listener of the run before
\* left on its target.
WindowScrollEffectLeaking ==
  /\ element' = windowRef
  /\ IF ScrollDepsChanged
     THEN /\ effectElement' = element /\ effectKey' = horizontal
          /\ IF element = 0
             THEN /\ parentOffsetRef' = 0
                  /\ scrollOffset' = IF useWindow THEN 0 ELSE scrollOffset
                  /\ listeners' = listeners
             ELSE \E captured \in {IF parentRef # 0 THEN scrollTop + BoundingClientRect
                                    ELSE parentOffsetRef} :
                    /\ parentOffsetRef' = captured
                    /\ scrollOffset' = IF useWindow THEN scrollTop - captured
                                       ELSE scrollOffset
                    /\ listeners' = Append(listeners, Listener(element, horizontal))
     ELSE UNCHANGED <<effectElement, effectKey, listeners, parentOffsetRef, scrollOffset>>

\* The layout effects of useWindowScroll: setElement(windowRef.current), and,
\* when the dependencies of this render are not those of its latest run, the
\* effect: the cleanup of that run takes its listener off, then the effect
\* captures the offset of the container, reports the scroll offset once and
\* registers its listener on the element of this render; without an element
\* it reports 0 and registers nothing.
WindowScrollEffect ==
  /\ element' = windowRef
  /\ IF ScrollDepsChanged
     THEN /\ effectElement' = element /\ effectKey' = horizontal
          /\ IF element = 0
             THEN /\ parentOffsetRef' = 0
                  /\ scrollOffset' = IF useWindow THEN 0 ELSE scrollOffset
                  /\ listeners' = Cleanup
             ELSE \E captured \in {IF parentRef # 0 THEN scrollTop + BoundingClientRect
                                    ELSE parentOffsetRef} :
                    /\ parentOffsetRef' = captured
                    /\ scrollOffset' = IF useWindow THEN scrollTop - captured
                                       ELSE scrollOffset
                    /\ listeners' = Append(Cleanup, Listener(element, horizontal))
     ELSE UNCHANGED <<effectElement, effectKey, listeners, parentOffsetRef, scrollOffset>>

\* The layout effects of useElementScroll: setElement(parentRef.current), and
\* the effect on [element, scrollKey], which after the cleanup of its latest
\* run reports element[scrollKey] once and registers its listener, and without
\* an element reports 0.
ElementScrollEffect ==
  /\ element' = parentRef
  /\ parentOffsetRef' = parentOffsetRef
  /\ IF ScrollDepsChanged
     THEN /\ effectElement' = element /\ effectKey' = horizontal
          /\ IF element = 0
             THEN scrollOffset' = 0 /\ listeners' = Cleanup
             ELSE /\ scrollOffset' = scrollTop
                  /\ listeners' = Append(Cleanup, Listener(element, horizontal))
     ELSE UNCHANGED <<effectElement, effectKey, listeners, scrollOffset>>

\* The layout effects of the hook whose result useDefaultScroll returns.
ScrollEffect == IF useWindow THEN WindowScrollEffect ELSE ElementScrollEffect

\* The layout effects of a commit, run when its ref callbacks are done: those
\* of the scroll source, and the one on [estimateSize], which clears the
\* measured sizes when the estimator is another function than at the previous
\* commit.
LayoutEffect ==
  /\ phase = "commit"
  /\ ScrollEffect
  /\ IF effectDeps # estimateSize
     THEN /\ queuedCache' = IF mountedRef THEN EmptyCache ELSE queuedCache
          /\ cacheDirty' = (mountedRef \/ cacheDirty)
          /\ mountedRef' = TRUE
          /\ effectDeps' = estimateSize
     ELSE UNCHANGED <<queuedCache, cacheDirty, mountedRef, effectDeps>>
  /\ writes' = <<>>
  /\ phase' = "idle"
  /\ UNCHANGED <<options, measuredCache, latestRef, scrollOffsetWithAdjustmentsRef,
                 pendingMeasuredCacheIndexesRef, outputs, scrollTop, outerSize,
                 scrollPending, useWindow, horizontal, windowRef, parentRef, parentTop,
                 settleVars, rafQueue>>

\* ------------------------------------------------------------ scroll writes
\* A call of the scroll source's scrollToFn: the offset it was called with, as
\* whole pixels and a half pixel (0 or 1), and the reason.
ScrollCall(twice, reason) ==
  [offset |-> twice \div 2, half |-> twice % 2, reason |-> reason]

\* scrollToFn of useElementScroll, called with the offset twice / 2.
ElementScrollToFn(twice) ==
  IF parentRef # 0
  THEN \E y \in Landings(twice) : scrollTop' = ElementScrollTo(y)
  ELSE scrollTop' = scrollTop

\* scrollToFn of useWindowScroll adding the container's offset whatever the
\* reason.
WindowScrollToFnTranslated(twice, reason) ==
  IF windowRef # 0
  THEN \E y \in Landings(twice + 2 * parentOffsetRef) :
         /\ scrollTop' = WindowScrollTo(y)
         /\ scrollPending' = (scrollPending \/ WindowScrollTo(y) # scrollTop)
  ELSE scrollTop' = scrollTop /\ scrollPending' = scrollPending

\* scrollToFn of useWindowScroll, called with the offset twice / 2: a write to
\* another position has the window dispatch a scroll event.
WindowScrollToFn(twice, reason) ==
  IF windowRef # 0
  THEN LET delta == IF reason \in {"ToIndex", "SizeChanged"}
                    THEN parentOffsetRef ELSE 0
       IN \E y \in Landings(twice + 2 * delta) :
            /\ scrollTop' = WindowScrollTo(y)
            /\ scrollPending' = (scrollPending \/ WindowScrollTo(y) # scrollTop)
  ELSE scrollTop' = scrollTop /\ scrollPending' = scrollPending

\* The scrollToFn useDefaultScroll returns, called with the offset twice / 2.
ScrollToFn(twice, reason) ==
  /\ IF useWindow THEN WindowScrollToFn(twice, reason)
     ELSE ElementScrollToFn(twice) /\ scrollPending' = scrollPending
  /\ writes' = <<ScrollCall(twice, reason)>>

\* defaultScrollToFn(offset, reason) with a whole offset.
defaultScrollToFn(offset, reason) == ScrollToFn(2 * offset, reason)

NoScrollWrite ==
  scrollTop' = scrollTop /\ scrollPending' = scrollPending /\ writes' = <<>>

\* ------------------------------------------------------------ measurement feedback
\* measureRef correcting the scroll position from the reported offset, with
\* no offset tracked across the reports of a commit.
MeasureRefUntracked(j, measuredSize) ==
  /\ phase = "commit"
  /\ j \in 1 .. Len(virtualItems)
  /\ LET item == virtualItems[j]
     IN /\ item # NoSpan
        /\ item.index \notin pendingMeasuredCacheIndexesRef
        /\ IF measuredSize # item.size
           THEN /\ IF item.start < latestRef.scrollOffset
                   THEN defaultScrollToFn(latestRef.scrollOffset
                                            + (measuredSize - item.size), "SizeChanged")
                   ELSE NoScrollWrite
                /\ pendingMeasuredCacheIndexesRef' =
                     pendingMeasuredCacheIndexesRef \cup {item.index}
                /\ queuedCache' = Store(queuedCache, item.key, measuredSize)
                /\ cacheDirty' = TRUE
           ELSE /\ NoScrollWrite
                /\ UNCHANGED <<pendingMeasuredCacheIndexesRef, queuedCache, cacheDirty>>
  /\ UNCHANGED <<sourceVars, settleVars, options, measuredCache, latestRef, mountedRef, effectDeps,
                 outputs, scrollOffset, outerSize, rafQueue, phase,
                 scrollOffsetWithAdjustmentsRef>>

\* measureRef of the item at position j of virtualItems, the element measuring
\* measuredSize.  It is a ref callback: it runs in
\* the commit, and an item reports once per recomputation.
MeasureRef(j, measuredSize) ==
  /\ phase = "commit"
  /\ j \in 1 .. Len(virtualItems)
  /\ LET item == virtualItems[j]
     IN /\ item # NoSpan
        /\ item.index \notin pendingMeasuredCacheIndexesRef
        /\ IF measuredSize # item.size
           THEN /\ IF item.start < latestRef.scrollOffset
                   THEN LET delta == measuredSize - item.size
                        IN /\ scrollOffsetWithAdjustmentsRef + delta
                                \in latestRef.scrollOffset - MaxDrift ..
                                    latestRef.scrollOffset + MaxDrift
                           /\ scrollOffsetWithAdjustmentsRef' =
                                scrollOffsetWithAdjustmentsRef + delta
                           /\ defaultScrollToFn(scrollOffsetWithAdjustmentsRef + delta,
                                                "SizeChanged")
                   ELSE /\ UNCHANGED scrollOffsetWithAdjustmentsRef
                        /\ NoScrollWrite
                /\ pendingMeasuredCacheIndexesRef' =
                     pendingMeasuredCacheIndexesRef \cup {item.index}
                /\ queuedCache' = Store(queuedCache, item.key, measuredSize)
                /\ cacheDirty' = TRUE
           ELSE /\ NoScrollWrite
                /\ UNCHANGED <<scrollOffsetWithAdjustmentsRef,
                               pendingMeasuredCacheIndexesRef, queuedCache, cacheDirty>>
  /\ UNCHANGED <<sourceVars, settleVars, options, measuredCache, latestRef, mountedRef, effectDeps,
                 outputs, scrollOffset, outerSize, rafQueue, phase>>

\* measure(): resetMeasurements.
Measure ==
  /\ phase = "idle"
  /\ queuedCache' = EmptyCache
  /\ cacheDirty' = TRUE
  /\ writes' = <<>>
  /\ UNCHANGED <<sourceVars, settleVars, options, measuredCache, refVars, outputs, scrollVars,
                 rafQueue, phase>>

\* ------------------------------------------------------------ scroll notifications
\* The user scrolls the element.
UserScroll(offset) ==
  /\ phase = "idle"
  /\ Listening(parentRef)
  /\ offset = ElementScrollTo(offset)
  /\ scrollTop' = offset
  /\ scrollOffset' = offset
  /\ writes' = <<>>
  /\ UNCHANGED <<sourceVars, settleVars, options, cacheVars, refVars, outputs, outerSize,
                 scrollPending, rafQueue, phase>>

\* onScroll of the scroll source: the scroll event of a changed position.
OnScroll ==
  /\ phase = "idle"
  /\ Listening(parentRef)
  /\ scrollTop # scrollOffset
  /\ scrollOffset' = scrollTop
  /\ writes' = <<>>
  /\ UNCHANGED <<sourceVars, settleVars, options, cacheVars, refVars, outputs, scrollTop, outerSize,
                 scrollPending, rafQueue, phase>>

\* The size observer of the scroll source reports the viewport size.
Resize(rect) ==
  /\ phase = "idle"
  /\ outerSize' = rect
  /\ writes' = <<>>
  /\ UNCHANGED <<sourceVars, settleVars, options, cacheVars, refVars, outputs, scrollTop, scrollOffset,
                 scrollPending, rafQueue, phase>>

\* ------------------------------------------------------------ imperative scrolling
\* scrollTo(offset, reason) without a scrollToFn option: the offset is twice / 2.
scrollTo(twice, reason) == ScrollToFn(twice, reason)

\* scrollToOffset with the alignment auto writing nothing for an offset inside
\* the viewport.
scrollToOffsetAutoIdle(twice, align, reason) ==
  LET so == latestRef.scrollOffset
      outer == latestRef.outerSize
      resolved == IF align = "auto"
                  THEN IF twice <= 2 * so THEN "start"
                       ELSE IF twice >= 2 * (so + outer) THEN "end"
                       ELSE "none"
                  ELSE align
  IN IF resolved = "start" THEN scrollTo(twice, reason)
     ELSE IF resolved = "end" THEN scrollTo(twice - 2 * outer, reason)
     ELSE IF resolved = "center" THEN scrollTo(twice - outer, reason)
     ELSE NoScrollWrite

\* scrollToOffset(toOffset, { align }, reason): the halves of the alignment
\* center are kept by counting in half pixels, toOffset being twice / 2.
scrollToOffset(twice, align, reason) ==
  LET so == latestRef.scrollOffset
      outer == latestRef.outerSize
      resolved == IF align = "auto"
                  THEN IF twice <= 2 * so THEN "start"
                       ELSE IF twice >= 2 * (so + outer) THEN "end"
                       ELSE "start"
                  ELSE align
  IN IF resolved = "start" THEN scrollTo(twice, reason)
     ELSE IF resolved = "end" THEN scrollTo(twice - 2 * outer, reason)
     ELSE IF resolved = "center" THEN scrollTo(twice - outer, reason)
     ELSE NoScrollWrite

\* tryScrollToIndex with auto aligning an item below the viewport at its start.
tryScrollToIndexStart(index, align, n) ==
  LET m == latestRef.measurements
      so == latestRef.scrollOffset
      outer == latestRef.outerSize
      i == Max(0, Min(index, n - 1))
  IN IF ~Has(m, i) THEN NoScrollWrite
     ELSE LET measurement == At(m, i)
              resolved == IF align = "auto"
                          THEN IF measurement.end >= so + outer THEN "start"
                               ELSE IF measurement.start <= so THEN "start"
                               ELSE "none"
                          ELSE align
              twice == IF resolved = "center"
                       THEN 2 * measurement.start + measurement.size
                       ELSE IF resolved = "end" THEN 2 * measurement.end
                       ELSE 2 * measurement.start
          IN IF resolved = "none" THEN NoScrollWrite
             ELSE scrollToOffset(twice, resolved, "ToIndex")

\* tryScrollToIndex with auto aligning an item inside the viewport at its start.
tryScrollToIndexEager(index, align, n) ==
  LET m == latestRef.measurements
      so == latestRef.scrollOffset
      outer == latestRef.outerSize
      i == Max(0, Min(index, n - 1))
  IN IF ~Has(m, i) THEN NoScrollWrite
     ELSE LET measurement == At(m, i)
              resolved == IF align = "auto"
                          THEN IF measurement.end >= so + outer THEN "end"
                               ELSE "start"
                          ELSE align
              twice == IF resolved = "center"
                       THEN 2 * measurement.start + measurement.size
                       ELSE IF resolved = "end" THEN 2 * measurement.end
                       ELSE 2 * measurement.start
          IN scrollToOffset(twice, resolved, "ToIndex")

\* tryScrollToIndex of the render whose item count was n; toOffset is twice / 2.
tryScrollToIndex(index, align, n) ==
  LET m == latestRef.measurements
      so == latestRef.scrollOffset
      outer == latestRef.outerSize
      i == Max(0, Min(index, n - 1))
  IN IF ~Has(m, i) THEN NoScrollWrite
     ELSE LET measurement == At(m, i)
              resolved == IF align = "auto"
                          THEN IF measurement.end >= so + outer THEN "end"
                               ELSE IF measurement.start <= so THEN "start"
                               ELSE "none"
                          ELSE align
              twice == IF resolved = "center"
                       THEN 2 * measurement.start + measurement.size
                       ELSE IF resolved = "end" THEN 2 * measurement.end
                       ELSE 2 * measurement.start
          IN IF resolved = "none" THEN NoScrollWrite
             ELSE scrollToOffset(twice, resolved, "ToIndex")

ScrollToOffset(toOffset, align) ==
  /\ phase = "idle"
  /\ scrollToOffset(2 * toOffset, align, "ToOffset")
  /\ UNCHANGED <<sourceVars, settleVars, options, cacheVars, refVars, outputs, scrollOffset, outerSize,
                 rafQueue, phase>>

\* scrollToIndex with a new call taking the place of the frames that wait.
ScrollToIndexCoalescing(index, align) ==
  /\ phase = "idle"
  /\ Len(rafQueue) < MaxRaf
  /\ tryScrollToIndex(index, align, size)
  /\ rafQueue' = <<[index |-> index, align |-> align, size |-> size]>>
  /\ UNCHANGED <<sourceVars, settleVars, options, cacheVars, refVars, outputs, scrollOffset, outerSize, phase>>

\* scrollToIndex: one attempt now, one at the next animation frame.
ScrollToIndex(index, align) ==
  /\ phase = "idle"
  /\ Len(rafQueue) < MaxRaf
  /\ tryScrollToIndex(index, align, size)
  /\ rafQueue' = Append(rafQueue, [index |-> index, align |-> align, size |-> size])
  /\ UNCHANGED <<sourceVars, settleVars, options, cacheVars, refVars, outputs, scrollOffset, outerSize, phase>>

\* The animation frame runs the oldest waiting callback.
AnimationFrame ==
  /\ phase = "idle"
  /\ rafQueue # <<>>
  /\ tryScrollToIndex(Head(rafQueue).index, Head(rafQueue).align, Head(rafQueue).size)
  /\ rafQueue' = Tail(rafQueue)
  /\ UNCHANGED <<sourceVars, settleVars, options, cacheVars, refVars, outputs, scrollOffset, outerSize, phase>>

\* ------------------------------------------------------------ specification
\* The options of the latest render, passed again.
CurrentOptions ==
  [size |-> size, estimateSize |-> estimateSize, overscan |-> overscan,
   paddingStart |-> paddingStart, paddingEnd |-> paddingEnd,
   keyExtractor |-> keyExtractor, rangeExtractor |-> rangeExtractor]

Rendered == phase # "unmounted"
Spans == latestRef.measurements
KeyOf(i) == KeyExtractor(keyExtractor, i)

\* The options a caller passes in the measurement dynamics: every item count,
\* two estimators, both paddings.
Options ==
  [size : 0 .. MaxCount, estimateSize : {1, 2}, overscan : {1},
   paddingStart : Paddings, paddingEnd : Paddings,
   keyExtractor : {0}, rangeExtractor : {0}]

Next ==
  \/ \E o \in Options : Render(o)
  \/ LayoutEffect
  \/ \E j \in 1 .. MaxCount, s \in MeasuredSizes : MeasureRef(j, s)
  \/ Measure

Spec == Init /\ [][Next]_vars

\* The same dynamics with every operation followed by a recomputation: the
\* reports of one commit, or one reset, are rendered with unchanged options
\* before anything else is reported, reset or changed.
NextSerial ==
  \/ \E o \in Options :
       /\ (phase # "unmounted" /\ (cacheDirty \/ pendingMeasuredCacheIndexesRef # {}))
            => o = CurrentOptions
       /\ Render(o)
  \/ LayoutEffect
  \/ \E j \in 1 .. MaxCount, s \in MeasuredSizes : MeasureRef(j, s)
  \/ ~cacheDirty /\ Measure

SpecSerial == Init /\ [][NextSerial]_vars

\* ------------------------------------------------------------ the rendered window
\* The List of the tests: 200 items in a viewport of 200, an element measuring
\* 25, a scroll to 75.
TestSize == 200
TestHeight == 200
TestOffsetHeight == 25
TestScrollTop == 75

\* The hook with nothing measured, under every scroll position, viewport,
\* overscan and selector: the uniform estimators, the item counts up to MaxCount
\* and the count of the tests, the viewports of up to two Viewport and of the
\* tests.
Viewports == {0, 1, Viewport, 2 * Viewport, TestHeight}
ViewOffsets == (0 .. MaxOffset) \cup {TestScrollTop}
ViewOptions ==
  [size : (0 .. MaxCount) \cup {TestSize}, estimateSize : {0, 1}, overscan : {0, 1},
   paddingStart : {0}, paddingEnd : {0},
   keyExtractor : {0}, rangeExtractor : {0, 1, 2}]

InitView ==
  /\ HookInit
  /\ \E v \in Viewports : ScrollInit(v)
  /\ phase = "unmounted"

\* The list is mounted with any of the options and rendered again with any
\* overscan and selector.
NextView ==
  \/ \E o \in ViewOptions :
       /\ Rendered => (o.size = size /\ o.estimateSize = estimateSize)
       /\ Render(o)
  \/ LayoutEffect
  \/ \E offset \in ViewOffsets : UserScroll(offset)
  \/ \E rect \in Viewports : Resize(rect)

SpecView == InitView /\ [][NextView]_vars

\* ------------------------------------------------------------ measurement feedback
\* The List of the tests with every element measuring TestOffsetHeight: the
\* commit runs the ref callback of every rendered item before the layout
\* effect, React renders again while a state it reads has changed, and the
\* user scrolls once, when the list is at rest.
FeedbackOptions ==
  [size : {TestSize}, estimateSize : {0}, overscan : 0 .. MaxOverscan,
   paddingStart : {0}, paddingEnd : {0},
   keyExtractor : {0}, rangeExtractor : {0}]

NeedsRender ==
  \/ cacheDirty
  \/ element # effectElement
  \/ horizontal # effectKey
  \/ scrollOffset # latestRef.scrollOffset
  \/ outerSize # latestRef.outerSize

AllReported ==
  \A j \in 1 .. Len(virtualItems) :
    \/ virtualItems[j].size = TestOffsetHeight
    \/ virtualItems[j].index \in pendingMeasuredCacheIndexesRef

AtRest ==
  /\ phase = "idle" /\ ~NeedsRender
  /\ rafQueue = <<>> /\ scrollTop = scrollOffset

InitFeedback == HookInit /\ ScrollInit(TestHeight) /\ phase = "unmounted"

MountList == phase = "unmounted" /\ \E o \in FeedbackOptions : Render(o)
Rerender == phase = "idle" /\ NeedsRender /\ Render(CurrentOptions)
Report == \E j \in 1 .. Len(virtualItems) : MeasureRef(j, TestOffsetHeight)
CommitList == AllReported /\ LayoutEffect
ScrollList == AtRest /\ scrollOffset = 0 /\ UserScroll(TestScrollTop)

NextFeedback == MountList \/ Rerender \/ Report \/ CommitList \/ ScrollList

SpecFeedback ==
  /\ InitFeedback /\ [][NextFeedback]_vars
  /\ WF_vars(MountList) /\ WF_vars(Rerender)
  /\ WF_vars(Report) /\ WF_vars(CommitList)

\* ------------------------------------------------------------ scrolling to an index
\* The hook of the scroll test: 100 items of 50 in a viewport of 200,
\* scrollToIndex(5).
ScrollTestSize == 100
ScrollTestOuterSize == 200
ScrollTestIndex == 5

\* Lists of a uniform size with nothing measured; scrollToIndex and
\* scrollToOffset are called on a list at rest, and the user scrolls a list at
\* rest.  The animation frame, the
\* scroll event and the render they cause come in any order.
ScrollOptions ==
  [size : {MaxCount, ScrollTestSize}, estimateSize : {0, 1}, overscan : {0, 1},
   paddingStart : {0}, paddingEnd : {0},
   keyExtractor : {0}, rangeExtractor : {0}]
ScrollViewports == {0, Viewport, 2 * Viewport, ScrollTestOuterSize}
ScrollIndexes == (0 .. MaxCount) \cup {ScrollTestIndex}

InitScroll ==
  /\ HookInit
  /\ \E v \in ScrollViewports : ScrollInit(v)
  /\ phase = "unmounted"

MountHook == phase = "unmounted" /\ \E o \in ScrollOptions : Render(o)
Request == AtRest /\ \E i \in ScrollIndexes, align \in Alignments : ScrollToIndex(i, align)
OffsetRequest ==
  AtRest /\ \E toOffset \in 0 .. MaxOffset, align \in Alignments :
              ScrollToOffset(toOffset, align)
UserScrolls == AtRest /\ \E offset \in 0 .. MaxOffset : UserScroll(offset)

NextScroll ==
  \/ MountHook \/ Rerender \/ LayoutEffect
  \/ Request \/ OffsetRequest \/ AnimationFrame \/ OnScroll \/ UserScrolls

SpecScroll ==
  /\ InitScroll /\ [][NextScroll]_vars
  /\ WF_vars(MountHook) /\ WF_vars(Rerender) /\ WF_vars(LayoutEffect)
  /\ WF_vars(AnimationFrame) /\ WF_vars(OnScroll)

\* ------------------------------------------------------------ imperative calls
\* scrollToOffset and scrollToIndex called whenever the caller can run, at rest
\* or not, with offsets and indices inside and outside the list, on lists whose
\* item count changes between renders; the user scrolls, and the scroll event,
\* the animation frame and the renders come in any order.  Until the frame of
\* a scrollToIndex has run there are renders and scroll events only.
ImperativeOptions ==
  [size : 0 .. MaxCount, estimateSize : {2}, overscan : {1},
   paddingStart : {0}, paddingEnd : {0},
   keyExtractor : {0}, rangeExtractor : {0}]
ImperativeViewports == {1, 2 * Viewport}
ImperativeOffsets == -1 .. MaxOffset + Viewport
ImperativeIndexes == -1 .. MaxCount + 1

InitImperative ==
  /\ HookInit
  /\ \E v \in ImperativeViewports : ScrollInit(v)
  /\ phase = "unmounted"

ImperativeRender == \E o \in ImperativeOptions : Render(o)
ImperativeOffsetCall ==
  /\ rafQueue = <<>>
  /\ \E toOffset \in ImperativeOffsets, align \in Alignments : ScrollToOffset(toOffset, align)
ImperativeIndexCall ==
  /\ rafQueue = <<>>
  /\ \E index \in ImperativeIndexes, align \in Alignments : ScrollToIndex(index, align)
ImperativeUserScroll ==
  rafQueue = <<>> /\ \E offset \in 0 .. MaxOffset : UserScroll(offset)
\* The last item of a full list that is not scrolled reports the size its
\* element measures.
ImperativeReport ==
  /\ size = MaxCount /\ rafQueue = <<>> /\ scrollTop = 0 /\ scrollOffset = 0
  /\ \E j \in 1 .. Len(virtualItems), s \in MeasuredSizes :
       virtualItems[j].index = size - 1 /\ MeasureRef(j, s)

NextImperative ==
  \/ ImperativeRender \/ LayoutEffect \/ ImperativeReport
  \/ ImperativeOffsetCall \/ ImperativeIndexCall \/ AnimationFrame
  \/ ImperativeUserScroll \/ OnScroll

SpecImperative == InitImperative /\ [][NextImperative]_vars

\* ------------------------------------------------------------ resets
\* A list whose options stay those of its mount: its items report sizes, the
\* caller resets the measurements at any time after a commit, also before the
\* reports of that commit are rendered, and React renders again while the
\* measured cache has changed.
ResetOptions ==
  [size : {MaxCount}, estimateSize : {1, 2}, overscan : {1},
   paddingStart : {0}, paddingEnd : {0},
   keyExtractor : {0}, rangeExtractor : {0}]

InitReset == HookInit /\ ScrollInit(2 * Viewport) /\ phase = "unmounted"

MountReset == phase = "unmounted" /\ \E o \in ResetOptions : Render(o)
ResetReport ==
  \E j \in 1 .. Len(virtualItems), s \in MeasuredSizes : MeasureRef(j, s)

NextReset == MountReset \/ Rerender \/ ResetReport \/ LayoutEffect \/ Measure

SpecReset == InitReset /\ [][NextReset]_vars

\* ------------------------------------------------------------ estimator changes
\* A list of MaxCount items rendered with either estimator at every render,
\* whose items report sizes; nothing resets the measurements but the layout
\* effect.
EstimatorOptions ==
  [size : {MaxCount}, estimateSize : {1, 2}, overscan : {1},
   paddingStart : {0}, paddingEnd : {0},
   keyExtractor : {0}, rangeExtractor : {0}]

InitEstimator == HookInit /\ ScrollInit(2 * Viewport) /\ phase = "unmounted"

EstimatorRender == \E o \in EstimatorOptions : Render(o)
EstimatorReport ==
  \E j \in 1 .. Len(virtualItems), s \in MeasuredSizes : MeasureRef(j, s)

NextEstimator == EstimatorRender \/ EstimatorReport \/ LayoutEffect

SpecEstimator == InitEstimator /\ [][NextEstimator]_vars

\* ------------------------------------------------------------ keys
\* A list whose item count and key map change between renders, the estimator
\* staying () => 2: its items report sizes, and nothing resets the
\* measurements.
KeyOptions ==
  [size : 0 .. MaxCount, estimateSize : {1}, overscan : {1},
   paddingStart : {0}, paddingEnd : Paddings,
   keyExtractor : {0, 1}, rangeExtractor : {0}]

InitKeys == HookInit /\ ScrollInit(2 * Viewport) /\ phase = "unmounted"

KeysRender == \E o \in KeyOptions : Render(o)
KeysReport ==
  \E j \in 1 .. Len(virtualItems), s \in MeasuredSizes : MeasureRef(j, s)

NextKeys == KeysRender \/ KeysReport \/ LayoutEffect

SpecKeys == InitKeys /\ [][NextKeys]_vars

\* ------------------------------------------------------------ scroll corrections
\* A scrolled list whose items report the sizes their elements measure: the
\* user scrolls a list at rest, the items of a commit report in any order, and
\* the scroll event of a correction and the render of the reports come in
\* either order.
AdjustOptions ==
  [size : {MaxCount}, estimateSize : {1}, overscan : {1},
   paddingStart : {0}, paddingEnd : {0},
   keyExtractor : {0}, rangeExtractor : {0}]

InitAdjust == HookInit /\ ScrollInit(Viewport) /\ phase = "unmounted"

MountAdjust == phase = "unmounted" /\ \E o \in AdjustOptions : Render(o)
AdjustReport ==
  \E j \in 1 .. Len(virtualItems), s \in MeasuredSizes : MeasureRef(j, s)
AdjustUserScroll == AtRest /\ \E offset \in 0 .. MaxOffset + MaxCount : UserScroll(offset)

NextAdjust ==
  \/ MountAdjust \/ Rerender \/ AdjustReport \/ LayoutEffect
  \/ AdjustUserScroll \/ OnScroll

SpecAdjust == InitAdjust /\ [][NextAdjust]_vars

\* ------------------------------------------------------------ animation frames
\* scrollToIndex called again, and scrollToOffset called, while frames of
\* earlier calls wait: a list of MaxCount or one item fewer, whose last item
\* reports a size, which the user scrolls.  The browser runs the frame
\* callbacks in the order of their requests; every commit completes, and a
\* frame that is waiting comes to run however often the hook renders.
FrameOptions ==
  [size : {MaxCount - 1, MaxCount}, estimateSize : {2}, overscan : {1},
   paddingStart : {0}, paddingEnd : {0},
   keyExtractor : {0}, rangeExtractor : {0}]
FrameIndexes == {0, MaxCount - 1}
FrameAlignments == {"end", "auto"}

InitFrames == HookInit /\ ScrollInit(Viewport) /\ phase = "unmounted"

FrameRender ==
  /\ phase = "unmounted" \/ pendingMeasuredCacheIndexesRef = {}
  /\ \E o \in FrameOptions : Render(o)
FrameCall == \E index \in FrameIndexes, align \in FrameAlignments : ScrollToIndex(index, align)
FrameOffsetCall == \E toOffset \in 0 .. MaxOffset : ScrollToOffset(toOffset, "start")
FrameUserScroll == \E offset \in 0 .. MaxOffset : UserScroll(offset)
FrameReport ==
  /\ size = MaxCount /\ scrollTop = 0 /\ scrollOffset = 0
  /\ \E j \in 1 .. Len(virtualItems), s \in MeasuredSizes :
       virtualItems[j].index = size - 1 /\ MeasureRef(j, s)

NextFrames ==
  \/ FrameRender \/ Rerender \/ LayoutEffect \/ FrameReport
  \/ FrameCall \/ FrameOffsetCall \/ AnimationFrame
  \/ FrameUserScroll \/ OnScroll

SpecFrames ==
  /\ InitFrames /\ [][NextFrames]_vars
  /\ WF_vars(LayoutEffect) /\ SF_vars(AnimationFrame)

\* ------------------------------------------------------------ the window source
\* The hook of the window tests: 100 items of 50 under a window of 200, which
\* scrolls to 100.
WindowTestSize == 100
WindowTestHeight == 200
WindowTestScrollY == 100

\* The user scrolls the window: the position changes, a scroll event follows.
WindowScroll(y) ==
  /\ phase = "idle"
  /\ y = WindowScrollTo(y)
  /\ scrollTop' = y
  /\ scrollPending' = TRUE
  /\ writes' = <<>>
  /\ UNCHANGED <<sourceVars, settleVars, options, cacheVars, refVars, outputs, scrollOffset,
                 outerSize, rafQueue, phase>>

\* onScroll of useWindowScroll with the container's offset left in.
WindowOnScrollRaw ==
  /\ phase = "idle"
  /\ scrollPending
  /\ scrollPending' = FALSE
  /\ scrollOffset' = IF Listening(1) THEN scrollTop ELSE scrollOffset
  /\ writes' = <<>>
  /\ UNCHANGED <<sourceVars, settleVars, options, cacheVars, refVars, outputs, scrollTop,
                 outerSize, rafQueue, phase>>

\* The window dispatches its scroll event: onScroll of useWindowScroll runs
\* when the effect has its listener on the window.
WindowOnScroll ==
  /\ phase = "idle"
  /\ scrollPending
  /\ scrollPending' = FALSE
  /\ scrollOffset' = IF Listening(1) THEN scrollTop - parentOffsetRef
                     ELSE scrollOffset
  /\ writes' = <<>>
  /\ UNCHANGED <<sourceVars, settleVars, options, cacheVars, refVars, outputs, scrollTop,
                 outerSize, rafQueue, phase>>

\* The caller points windowRef.current at null or at the window.
SetWindowRef(w) ==
  /\ phase = "idle"
  /\ w # windowRef
  /\ windowRef' = w
  /\ writes' = <<>>
  /\ UNCHANGED <<useWindow, horizontal, parentRef, parentTop, element, effectElement,
                 effectKey, listeners, parentOffsetRef, options, cacheVars, refVars,
                 outputs, scrollVars, settleVars, rafQueue, phase>>

\* The hook over the window: lists of a uniform size, the container at the
\* top of the document or below it, the window scrolled or not when the hook
\* mounts.
WindowOptions ==
  [size : {MaxCount, WindowTestSize}, estimateSize : {0, 1}, overscan : {0, 1},
   paddingStart : {0}, paddingEnd : {0},
   keyExtractor : {0}, rangeExtractor : {0}]
WindowTops == {0, 1}
WindowOffsets == (0 .. MaxOffset) \cup {WindowTestScrollY}

InitWindow ==
  /\ HookInit
  /\ \E top \in WindowTops, parent \in BOOLEAN, y \in {0, MaxOffset},
        v \in {Viewport, WindowTestHeight} :
       /\ WindowSource(top, parent)
       /\ scrollTop = y /\ scrollOffset = 0 /\ outerSize = v /\ scrollPending = FALSE
  /\ phase = "unmounted"

MountWindow == phase = "unmounted" /\ \E o \in WindowOptions : Render(o)
WindowAtRest == phase = "idle" /\ ~NeedsRender /\ rafQueue = <<>> /\ ~scrollPending
WindowScrolls == WindowAtRest /\ \E y \in WindowOffsets : WindowScroll(y)
WindowRefChanges == WindowAtRest /\ \E w \in {0, 1} : SetWindowRef(w)
WindowOffsetRequest ==
  WindowAtRest /\ \E toOffset \in 0 .. MaxOffset, align \in Alignments :
                    ScrollToOffset(toOffset, align)
WindowRequest ==
  WindowAtRest /\ \E i \in 0 .. MaxCount, align \in Alignments : ScrollToIndex(i, align)
\* The items of the short lists without overscan report the sizes their
\* elements measure.
WindowReport ==
  /\ size = MaxCount /\ estimateSize = 1 /\ overscan = 0
  /\ \E j \in 1 .. Len(virtualItems), s \in MeasuredSizes : MeasureRef(j, s)

NextWindow ==
  \/ MountWindow \/ Rerender \/ LayoutEffect \/ WindowReport
  \/ WindowScrolls \/ WindowOnScroll \/ WindowRefChanges
  \/ WindowOffsetRequest \/ WindowRequest \/ AnimationFrame

SpecWindow == InitWindow /\ [][NextWindow]_vars

\* ------------------------------------------------------------ subscriptions
\* The caller points parentRef.current at null, the container or another
\* element.
SetParentRef(p) ==
  /\ phase = "idle"
  /\ p # parentRef
  /\ parentRef' = p
  /\ writes' = <<>>
  /\ UNCHANGED <<useWindow, horizontal, windowRef, parentTop, element, effectElement,
                 effectKey, listeners, parentOffsetRef, options, cacheVars, refVars,
                 outputs, scrollVars, settleVars, rafQueue, phase>>

\* The caller passes another axis: horizontal gives scrollKey and rectKey.
SetHorizontal(h) ==
  /\ phase = "idle"
  /\ h # horizontal
  /\ horizontal' = h
  /\ writes' = <<>>
  /\ UNCHANGED <<useWindow, windowRef, parentRef, parentTop, element, effectElement,
                 effectKey, listeners, parentOffsetRef, options, cacheVars, refVars,
                 outputs, scrollVars, settleVars, rafQueue, phase>>

\* The ref of the hook in use: windowRef.current or parentRef.current.
TargetRef == IF useWindow THEN windowRef ELSE parentRef

\* A target is scrolled to y and dispatches its scroll event: the onScroll of
\* a listener registered on it reports the position it reads, for the window
\* less the static offset.  The targets are scrolled alike, on either axis:
\* scrollTop is the position read from any of them.
Dispatch(target, y) ==
  /\ phase = "idle"
  /\ y = (IF useWindow THEN WindowScrollTo(y) ELSE ElementScrollTo(y))
  /\ scrollTop' = y
  /\ scrollOffset' = IF Listening(target)
                     THEN y - (IF useWindow THEN parentOffsetRef ELSE 0)
                     ELSE scrollOffset
  /\ writes' = <<>>
  /\ UNCHANGED <<sourceVars, settleVars, options, cacheVars, refVars, outputs, outerSize,
                 scrollPending, rafQueue, phase>>

\* Either scroll source under a list that stays as it is: the caller points
\* the ref of the source at another target, at null and back, changes the
\* axis and calls scrollToOffset; the targets, the one in use and the ones
\* left, are scrolled; the component renders again at any time.
Targets == {1, 2}
SubscribeOptions ==
  [size : {MaxCount}, estimateSize : {1}, overscan : {0},
   paddingStart : {0}, paddingEnd : {0},
   keyExtractor : {0}, rangeExtractor : {0}]

InitSubscribe ==
  /\ HookInit
  /\ Unscrolled(Viewport)
  /\ ElementSource \/ WindowSource(1, TRUE)
  /\ phase = "unmounted"

MountSubscribe == phase = "unmounted" /\ \E o \in SubscribeOptions : Render(o)
SubscribeRender == phase = "idle" /\ Render(CurrentOptions)
TargetChanges ==
  \E t \in {0} \cup Targets : IF useWindow THEN SetWindowRef(t) ELSE SetParentRef(t)
AxisChanges == \E h \in BOOLEAN : SetHorizontal(h)
TargetScrolls == \E t \in Targets, y \in 0 .. MaxOffset : Dispatch(t, y)
SubscribeWrite == \E toOffset \in 0 .. MaxOffset : ScrollToOffset(toOffset, "start")

NextSubscribe ==
  \/ MountSubscribe \/ SubscribeRender \/ LayoutEffect
  \/ TargetChanges \/ AxisChanges \/ TargetScrolls \/ SubscribeWrite

SpecSubscribe == InitSubscribe /\ [][NextSubscribe]_vars

\* ------------------------------------------------------------ the two passes
\* A list of MaxCount items whose sizes stay the estimates, some of them
\* larger than the viewport: the user scrolls it at rest, the caller calls
\* scrollToIndex with the alignment auto at rest, and the scroll event, the
\* render and the animation frame of the call come in any order.
TwoPassOptions ==
  [size : {MaxCount}, estimateSize : {1, 2}, overscan : {1},
   paddingStart : {0}, paddingEnd : {0},
   keyExtractor : {0}, rangeExtractor : {0}]

InitTwoPass ==
  /\ HookInit
  /\ \E v \in {1, Viewport} : ScrollInit(v)
  /\ phase = "unmounted"

MountTwoPass == phase = "unmounted" /\ \E o \in TwoPassOptions : Render(o)
TwoPassUserScroll ==
  AtRest /\ \E offset \in 0 .. MaxOffset + MaxCount : UserScroll(offset)
TwoPassCall == AtRest /\ \E index \in 0 .. MaxCount - 1 : ScrollToIndex(index, "auto")

NextTwoPass ==
  \/ MountTwoPass \/ Rerender \/ LayoutEffect
  \/ TwoPassUserScroll \/ TwoPassCall \/ OnScroll \/ AnimationFrame

SpecTwoPass == InitTwoPass /\ [][NextTwoPass]_vars

\* ------------------------------------------------------------ the scrolling flag
\* The hook of index.js, which returns isScrolling.
ResetScrollingTimeoutDelay == 200
TickLength == 100    \* the time that passes in one step of the clock
MaxTimers == 2       \* timeouts waiting at one time

\* requestTimeout(callback, delay) of ./timer, as the timer of the
\* specification: the timeout of handle id starts to wait.
requestTimeout(ts, id) ==
  [x \in DOMAIN ts \cup {id} |-> IF x = id THEN 0 ELSE ts[x]]

\* cancelTimeout(id) of ./timer: the timeout of that handle waits no more.
cancelTimeout(ts, id) == [x \in DOMAIN ts \ {id} |-> ts[x]]

\* A handle no waiting timeout has.
FreshHandle(ts) == SetMin((1 .. MaxTimers) \ DOMAIN ts)

\* debouncedResetScrollingRef.current() with the timeout of the call before
\* left to wait.
debouncedResetScrollingStacking ==
  /\ Cardinality(DOMAIN timers) < MaxTimers
  /\ scrollingIdRef' = FreshHandle(timers)
  /\ timers' = requestTimeout(timers, FreshHandle(timers))

\* debouncedResetScrollingRef.current(): the timeout of scrollingIdRef is
\* cancelled and a new one requested, whose handle scrollingIdRef gets.
debouncedResetScrolling ==
  LET waiting == IF scrollingIdRef # 0 THEN cancelTimeout(timers, scrollingIdRef)
                 ELSE timers
  IN /\ Cardinality(DOMAIN waiting) < MaxTimers
     /\ scrollingIdRef' = FreshHandle(waiting)
     /\ timers' = requestTimeout(waiting, FreshHandle(waiting))

\* calculateRange of index.js, which widens the located range by the overscan.
calculateRangeOverscan(m, outer, offset, o) ==
  LET last == Len(m) - 1
      located == calculateRange(m, outer, offset)
  IN [start |-> Max(located.start - o, 0), end |-> Min(located.end + o, last)]

\* onScroll(event) of index.js, the listener of the scroll event of the
\* element, scrolled to y.
JsOnScroll(y) ==
  /\ phase = "idle"
  /\ Listening(parentRef)
  /\ y # scrollTop /\ y = ElementScrollTo(y)
  /\ scrollTop' = y
  /\ latestRef' = [latestRef EXCEPT !.scrollOffset = y]
  /\ isScrolling' = TRUE
  /\ debouncedResetScrolling
  /\ range' = calculateRangeOverscan(latestRef.measurements, latestRef.outerSize, y,
                                     overscan)
  /\ UNCHANGED <<sourceVars, isMountedRef, options, cacheVars,
                 scrollOffsetWithAdjustmentsRef, pendingMeasuredCacheIndexesRef,
                 mountedRef, effectDeps, indexes, virtualItems, scrollOffset, outerSize,
                 scrollPending, rafQueue, writes, phase>>

\* The callback of requestTimeout runs: the timeout of handle id has waited
\* for the delay.
TimeoutFires(id) ==
  /\ id \in DOMAIN timers
  /\ timers[id] >= ResetScrollingTimeoutDelay
  /\ timers' = cancelTimeout(timers, id)
  /\ scrollingIdRef' = 0
  /\ isScrolling' = IF isMountedRef THEN FALSE ELSE isScrolling
  /\ UNCHANGED <<sourceVars, isMountedRef, options, cacheVars, refVars, outputs,
                 scrollVars, rafQueue, writes, phase>>

\* Time passes for the timeouts that wait.
Tick ==
  /\ \E id \in DOMAIN timers : timers[id] < ResetScrollingTimeoutDelay
  /\ timers' = [id \in DOMAIN timers |->
                  Min(timers[id] + TickLength, ResetScrollingTimeoutDelay)]
  /\ UNCHANGED <<sourceVars, isMountedRef, isScrolling, scrollingIdRef, options,
                 cacheVars, refVars, outputs, scrollVars, rafQueue, writes, phase>>

\* The component unmounts: the cleanups of the layout effects of index.js set
\* isMountedRef.current = false and take the scroll listener off.
JsUnmount ==
  /\ phase = "idle"
  /\ isMountedRef' = FALSE
  /\ listeners' = Cleanup
  /\ phase' = "destroyed"
  /\ UNCHANGED <<useWindow, horizontal, windowRef, parentRef, parentTop, element,
                 effectElement, effectKey, parentOffsetRef, isScrolling, scrollingIdRef,
                 timers, options, cacheVars, refVars, outputs, scrollVars, rafQueue,
                 writes>>

\* The hook of index.js mounted over the container, a list of MaxCount items
\* with nothing measured: its layout effects have set isMountedRef.current,
\* located the range at the offset 0 and registered the listener.  The user
\* scrolls, time passes, due timeouts fire, and the component unmounts at any
\* time.
SettleOptions ==
  [size : {MaxCount}, estimateSize : {1, 2}, overscan : 0 .. MaxOverscan,
   paddingStart : {0}, paddingEnd : {0},
   keyExtractor : {0}, rangeExtractor : {0}]

MountedAt(o, v, y) ==
  LET m == FullMeasurements(o.size, EmptyCache, o.estimateSize, o.keyExtractor,
                            o.paddingStart)
  IN /\ size = o.size /\ estimateSize = o.estimateSize /\ overscan = o.overscan
     /\ paddingStart = o.paddingStart /\ paddingEnd = o.paddingEnd
     /\ keyExtractor = o.keyExtractor /\ rangeExtractor = o.rangeExtractor
     /\ latestRef = [scrollOffset |-> y, outerSize |-> v, measurements |-> m,
                     totalSize |-> TotalSize(m, o.size, o.paddingEnd)]
     /\ range = calculateRangeOverscan(m, v, y, o.overscan)
     /\ scrollTop = y /\ scrollOffset = 0 /\ outerSize = v /\ scrollPending = FALSE

InitSettle ==
  /\ \E o \in SettleOptions, v \in {1, Viewport} : MountedAt(o, v, 0)
  /\ FreshHook
  /\ useWindow = FALSE /\ horizontal = FALSE /\ windowRef = 0
  /\ parentRef = 1 /\ parentTop = 0 /\ parentOffsetRef = 0
  /\ element = 1 /\ effectElement = 1 /\ effectKey = FALSE
  /\ listeners = <<Listener(1, FALSE)>>
  /\ isMountedRef = TRUE /\ isScrolling = FALSE
  /\ scrollingIdRef = 0 /\ timers = NoTimers
  /\ phase = "idle"

ScrollNotification == \E y \in 0 .. MaxOffset : JsOnScroll(y)
TimerDue == \E id \in 1 .. MaxTimers : TimeoutFires(id)

NextSettle == ScrollNotification \/ Tick \/ TimerDue \/ JsUnmount

\* Time passes, and a timeout that is due fires.
SpecSettle ==
  /\ InitSettle /\ [][NextSettle]_vars
  /\ WF_vars(Tick) /\ WF_vars(TimerDue)

\* ------------------------------------------------------------ the reports of index.js
\* The virtualItems memo of index.js: the spans of range.start up to
\* Math.min(range.end, measurements.length - 1).
JsVirtualItems(m, r) ==
  [j \in 1 .. Max(0, Min(r.end, Len(m) - 1) - r.start + 1) |-> At(m, r.start + j - 1)]

\* defaultScrollToFn(offset) of index.js, which has no reason.
JsDefaultScrollToFn(offset) ==
  /\ scrollTop' = IF parentRef # 0 THEN ElementScrollTo(offset) ELSE scrollTop
  /\ scrollPending' = scrollPending
  /\ writes' = <<ScrollCall(2 * offset, "undefined")>>

\* The item has reported in this commit: setMeasuredCache has its size queued.
JsReported(item) == Lookup(queuedCache, item.key) # Lookup(measuredCache, item.key)

\* measureRef of index.js for the item at position j of virtualItems, the
\* element measuring measuredSize.
JsMeasureRef(j, measuredSize) ==
  /\ phase = "commit"
  /\ j \in 1 .. Len(virtualItems)
  /\ LET item == virtualItems[j]
     IN /\ ~JsReported(item)
        /\ IF measuredSize # item.size
           THEN /\ IF item.start < latestRef.scrollOffset
                   THEN JsDefaultScrollToFn(latestRef.scrollOffset
                                              + (measuredSize - item.size))
                   ELSE NoScrollWrite
                /\ queuedCache' = Store(queuedCache, item.key, measuredSize)
           ELSE NoScrollWrite /\ UNCHANGED queuedCache
  /\ UNCHANGED <<sourceVars, settleVars, options, measuredCache, cacheDirty, refVars,
                 outputs, scrollOffset, outerSize, rafQueue, phase>>

\* The range of index.js is the located one.
JsLocated ==
  calculateRangeOverscan(latestRef.measurements, latestRef.outerSize,
                         latestRef.scrollOffset, overscan)

\* The layout effect of [isScrolling, measurements] in index.js, at the end of
\* a commit.
JsLayoutEffect ==
  /\ phase = "commit"
  /\ range' = IF ~isScrolling THEN JsLocated ELSE range
  /\ writes' = <<>>
  /\ phase' = "idle"
  /\ UNCHANGED <<sourceVars, settleVars, options, cacheVars, latestRef,
                 scrollOffsetWithAdjustmentsRef, pendingMeasuredCacheIndexesRef,
                 mountedRef, effectDeps, indexes, virtualItems, scrollVars, rafQueue>>

\* A state of index.js has changed since its last render.
JsNeedsRender ==
  \/ queuedCache # measuredCache
  \/ virtualItems # JsVirtualItems(latestRef.measurements, range)
  \/ ~isScrolling /\ range # JsLocated

\* The hook body of index.js renders again with the options it has.
JsRender ==
  /\ phase = "idle" /\ JsNeedsRender
  /\ LET m == FullMeasurements(size, queuedCache, estimateSize, keyExtractor,
                               paddingStart)
     IN /\ measuredCache' = queuedCache
        /\ latestRef' = [latestRef EXCEPT !.measurements = m,
                                          !.totalSize = TotalSize(m, size, paddingEnd)]
        /\ virtualItems' = JsVirtualItems(m, range)
  /\ writes' = <<>>
  /\ phase' = "commit"
  /\ UNCHANGED <<sourceVars, settleVars, options, queuedCache, cacheDirty,
                 scrollOffsetWithAdjustmentsRef, pendingMeasuredCacheIndexesRef,
                 mountedRef, effectDeps, indexes, range, scrollVars, rafQueue>>

\* onScroll(event) of index.js for the scroll event of a write to the element.
JsScrollEvent ==
  /\ phase = "idle"
  /\ Listening(parentRef)
  /\ scrollTop # latestRef.scrollOffset
  /\ latestRef' = [latestRef EXCEPT !.scrollOffset = scrollTop]
  /\ isScrolling' = TRUE
  /\ debouncedResetScrolling
  /\ range' = calculateRangeOverscan(latestRef.measurements, latestRef.outerSize,
                                     scrollTop, overscan)
  /\ writes' = <<>>
  /\ UNCHANGED <<sourceVars, isMountedRef, options, cacheVars,
                 scrollOffsetWithAdjustmentsRef, pendingMeasuredCacheIndexesRef,
                 mountedRef, effectDeps, indexes, virtualItems, scrollVars, rafQueue,
                 phase>>

\* The hook of index.js mounted over a container that is scrolled to y, in
\* the commit of the render after its first layout effects: the items of the
\* range, those above the offset included, report the sizes their elements
\* measure in any order; the renders, the scroll events and the timeouts
\* follow.
JsAdjustOptions ==
  [size : {MaxCount}, estimateSize : {1, 2}, overscan : {1, MaxOverscan},
   paddingStart : {0}, paddingEnd : {0},
   keyExtractor : {0}, rangeExtractor : {0}]

InitJsAdjust ==
  /\ \E o \in JsAdjustOptions, v \in {1, Viewport}, y \in 0 .. MaxOffset :
       /\ MountedAt(o, v, y)
       /\ y = ElementScrollTo(y)
  /\ virtualItems = JsVirtualItems(latestRef.measurements, range)
  /\ measuredCache = EmptyCache /\ queuedCache = EmptyCache /\ cacheDirty = FALSE
  /\ scrollOffsetWithAdjustmentsRef = 0 /\ pendingMeasuredCacheIndexesRef = {}
  /\ mountedRef = FALSE /\ effectDeps = -1
  /\ indexes = <<>> /\ rafQueue = <<>> /\ writes = <<>>
  /\ useWindow = FALSE /\ horizontal = FALSE /\ windowRef = 0
  /\ parentRef = 1 /\ parentTop = 0 /\ parentOffsetRef = 0
  /\ element = 1 /\ effectElement = 1 /\ effectKey = FALSE
  /\ listeners = <<Listener(1, FALSE)>>
  /\ isMountedRef = TRUE /\ isScrolling = FALSE
  /\ scrollingIdRef = 0 /\ timers = NoTimers
  /\ phase = "commit"

JsReport ==
  \E j \in 1 .. Len(virtualItems), s \in MeasuredSizes : JsMeasureRef(j, s)

NextJsAdjust ==
  \/ JsReport \/ JsLayoutEffect \/ JsRender \/ JsScrollEvent \/ Tick \/ TimerDue

SpecJsAdjust == InitJsAdjust /\ [][NextJsAdjust]_vars

\* ------------------------------------------------------------ pure functions
\* calculateRange on its own: the spans of up to MaxCount items of every size
\* in SpanSizes behind either padding, every offset up to the longest content
\* and every viewport up to Viewport.
SpanSizes == {0, 1, 2}
LocateOffsets == 0 .. MaxOffset * MaxCount

InitLocate ==
  /\ \E n \in 0 .. MaxCount, c \in [0 .. MaxCount - 1 -> SpanSizes], p \in Paddings,
        off \in LocateOffsets, v \in 0 .. Viewport :
       latestRef = [scrollOffset |-> off, outerSize |-> v,
                    measurements |-> FillMeasurements(<<>>, 0, n, c, 0, 0, p),
                    totalSize |-> 0]
  /\ DefaultOptions(0, 1)
  /\ FreshState
  /\ range = [start |-> 0, end |-> 0]
  /\ ScrollInit(0)
  /\ phase = "call"

\* const { start, end } = calculateRange(latestRef.current)
Locate ==
  /\ phase = "call"
  /\ range' = calculateRange(latestRef.measurements, latestRef.outerSize,
                             latestRef.scrollOffset)
  /\ phase' = "return"
  /\ UNCHANGED <<sourceVars, settleVars, options, cacheVars, refVars, indexes, virtualItems, scrollVars,
                 rafQueue, writes>>

SpecLocate == InitLocate /\ [][Locate]_vars

\* defaultRangeExtractor on its own: every range with start <= end up to
\* MaxCount, every overscan up to MaxOverscan and every item count.

InitExtract ==
  /\ \E n \in 0 .. MaxCount, o \in 0 .. MaxOverscan : DefaultOptions(n, o)
  /\ \E a \in 0 .. MaxCount, b \in 0 .. MaxCount :
       a <= b /\ range = [start |-> a, end |-> b]
  /\ FreshState
  /\ latestRef = [scrollOffset |-> 0, outerSize |-> 0,
                  measurements |-> <<>>, totalSize |-> 0]
  /\ ScrollInit(0)
  /\ phase = "call"

\* rangeExtractor({ start, end, overscan, size }) with the default policy
Extract ==
  /\ phase = "call"
  /\ indexes' = defaultRangeExtractor([start |-> range.start, end |-> range.end,
                                       overscan |-> overscan, size |-> size])
  /\ phase' = "return"
  /\ UNCHANGED <<sourceVars, settleVars, options, cacheVars, refVars, range, virtualItems, scrollVars,
                 rafQueue, writes>>

SpecExtract == InitExtract /\ [][Extract]_vars

\* ------------------------------------------------------------ properties

C2_TotalExtent ==
  Rendered =>
    latestRef.totalSize =
      IF size > 0 THEN At(Spans, size - 1).end + paddingEnd
      ELSE paddingStart + paddingEnd

\* C3: after every recomputation the size of span i is the measured size of
\* its key when the cache holds one, and the estimate of i otherwise.
C3_MeasuredSizeWins ==
  Rendered =>
    \A i \in 0 .. size - 1 :
      At(Spans, i).size =
        IF KeyOf(i) \in DOMAIN measuredCache THEN measuredCache[KeyOf(i)]
        ELSE EstimateSize(estimateSize, i)

\* C4: the range calculateRange returns holds every index whose span ends
\* after scrollOffset and starts before scrollOffset + viewportSize, and no
\* index outside [0, N - 1].
C4_LocatorAgreesWithScan ==
  phase = "return" =>
    LET m == latestRef.measurements
        N == Len(m)
        lo == latestRef.scrollOffset
        hi == latestRef.scrollOffset + latestRef.outerSize
    IN /\ \A i \in 0 .. N - 1 :
            (At(m, i).end > lo /\ At(m, i).start < hi)
              => (range.start <= i /\ i <= range.end)
       /\ \A i \in range.start .. range.end : 0 <= i /\ i <= N - 1

\* C5: the default policy returns the ascending run of the indices from
\* max(start - overscan, 0) to min(end + overscan, N - 1): consecutive, without
\* duplicates, inside [0, N - 1], and empty when N is 0.
C5_DefaultPolicy ==
  phase = "return" =>
    LET lo == Max(range.start - overscan, 0)
        hi == Min(range.end + overscan, size - 1)
    IN /\ \A j \in 1 .. Len(indexes) - 1 : indexes[j + 1] = indexes[j] + 1
       /\ {indexes[j] : j \in 1 .. Len(indexes)} = lo .. hi
       /\ \A j \in 1 .. Len(indexes) : 0 <= indexes[j] /\ indexes[j] <= size - 1
       /\ size = 0 => indexes = <<>>

\* The policy has clamped a range at both ends of the list.
C5_Witness ==
  /\ phase = "return" /\ size = MaxCount /\ overscan = MaxOverscan
  /\ range = [start |-> 1, end |-> MaxCount - 1]
  /\ Len(indexes) = MaxCount /\ indexes[1] = 0 /\ indexes[MaxCount] = MaxCount - 1

\* C6: the located range lies inside [0, itemCount - 1], every item of the
\* default policy has an index in it, and there is no item when itemCount is 0.
C6_RangeClamped ==
  Rendered =>
    /\ size > 0 => (0 <= range.start /\ range.start <= range.end
                     /\ range.end <= size - 1)
    /\ \A j \in 1 .. Len(virtualItems) :
         virtualItems[j].index >= 0 /\ virtualItems[j].index <= size - 1
    /\ size = 0 => virtualItems = <<>>

\* The indices 0 .. n - 1 in ascending order.
Run(first, last) == [j \in 1 .. (last - first + 1) |-> first + j - 1]
ItemIndexes == [j \in 1 .. Len(virtualItems) |-> virtualItems[j].index]

\* C7: with nothing measured, a uniform size s, no padding, a viewport of k * s
\* for a k >= 1 and the offset 0, the items are exactly those of the indices
\* 0 .. min(k - 1 + overscan, N - 1).
C7_UniformWindow ==
  LET s == EstimateSize(estimateSize, 0)
      k == latestRef.outerSize \div s
  IN (/\ Rendered /\ estimateSize \in {0, 1} /\ rangeExtractor = 0
      /\ measuredCache = EmptyCache /\ paddingStart = 0
      /\ latestRef.scrollOffset = 0
      /\ latestRef.outerSize = k * s /\ k >= 1)
     => /\ indexes = Run(0, Min(k - 1 + overscan, size - 1))
        /\ ItemIndexes = indexes

\* The List of the tests has rendered with the default overscan.
C7_Witness ==
  /\ phase = "idle" /\ size = TestSize /\ estimateSize = 0 /\ overscan = 1
  /\ rangeExtractor = 0 /\ latestRef.outerSize = TestHeight
  /\ latestRef.scrollOffset = 0
  /\ ItemIndexes = <<0, 1, 2, 3, 4>>

\* C9: under a caller's selector whose indices the list has, the items are
\* exactly the spans of the indices the selector returns, in its order, at
\* every scroll offset, viewport and overscan.
C9_CustomSelector ==
  (Rendered /\ rangeExtractor # 0 /\ size >= 2) =>
    /\ ItemIndexes = (IF rangeExtractor = 1 THEN <<0, 1>> ELSE <<1, 0>>)
    /\ \A j \in 1 .. Len(virtualItems) :
         virtualItems[j] = At(Spans, virtualItems[j].index)

\* The selector () => [0, 1] has held the items 0 and 1 in a list scrolled
\* past them.
C9_Witness ==
  /\ phase = "idle" /\ rangeExtractor = 1 /\ size = TestSize
  /\ latestRef.scrollOffset = TestScrollTop /\ range.start > 1
  /\ ItemIndexes = <<0, 1>>

\* C8: the List of the tests with the default overscan, every element
\* measuring 25: at the offset 0 the feedback loop comes to rest with the total
\* size below that of the estimates and exactly the items 0 .. 8; scrolled to
\* 75 it comes to rest with exactly the items 2 .. 11, for good; at rest every
\* item has its measured size, so that a further report changes nothing.
FeedbackSettled ==
  /\ AtRest /\ pendingMeasuredCacheIndexesRef = {}
  /\ \A j \in 1 .. Len(virtualItems) : virtualItems[j].size = TestOffsetHeight

C8_FeedbackSettles ==
  /\ (Rendered /\ overscan = 1 /\ scrollOffset = 0)
       ~> (/\ FeedbackSettled /\ scrollOffset = 0
           /\ latestRef.totalSize < TestSize * defaultEstimateSize
           /\ ItemIndexes = Run(0, 8))
  /\ (overscan = 1 /\ scrollOffset = TestScrollTop)
       ~> [](FeedbackSettled /\ ItemIndexes = Run(2, 11))

\* The scrolled List has come to rest.
C8_Witness ==
  /\ FeedbackSettled /\ overscan = 1 /\ scrollOffset = TestScrollTop
  /\ range = [start |-> 3, end |-> 10]
  /\ ItemIndexes = Run(2, 11)

\* C10: in a list of a uniform size s and a viewport of k * s for a k >= 1,
\* scrollToIndex(i) with the alignment auto for an item i that ends below the
\* viewport leads to a list at rest (both passes run, their writes reported and
\* rendered) whose located range ends at i.
UniformList ==
  LET s == EstimateSize(estimateSize, 0)
      k == latestRef.outerSize \div s
  IN /\ estimateSize \in {0, 1} /\ measuredCache = EmptyCache
     /\ latestRef.outerSize = k * s /\ k >= 1

Requested(i) ==
  /\ rafQueue # <<>>
  /\ Head(rafQueue).index = i /\ Head(rafQueue).align = "auto"
  /\ Has(Spans, i) /\ i <= size - 1
  /\ At(Spans, i).end > latestRef.scrollOffset + latestRef.outerSize

C10_ScrollToIndexBelow ==
  \A i \in ScrollIndexes :
    (UniformList /\ Requested(i)) ~> (AtRest /\ range.end = i)

\* The hook of the scroll test at rest after scrollToIndex(5).
C10_Witness ==
  /\ AtRest /\ size = ScrollTestSize /\ estimateSize = 0 /\ overscan = 0
  /\ latestRef.outerSize = ScrollTestOuterSize
  /\ latestRef.scrollOffset = 100
  /\ ItemIndexes = <<2, 3, 4, 5>>

\* C11: over the window, when the scroll effect attaches it captures the
\* static offset of the container as the scroll position of the window plus
\* the bounding-rect offset of the container; while it is attached and every
\* scroll event is dispatched, the reported scroll offset is the scroll
\* position minus that static offset; and a uniform list with nothing measured
\* and no overscan, rendered at a reported offset inside it, has as its first
\* item the one that offset lies in (index 2 at 100 for a size of 50).
WindowAttached == useWindow /\ effectElement = 1

C11_WindowOffset ==
  [][/\ (effectElement' # effectElement /\ effectElement' = 1 /\ parentRef # 0)
        => parentOffsetRef' = scrollTop + BoundingClientRect
     /\ (WindowAttached /\ ~scrollPending)'
        => (scrollOffset = scrollTop - parentOffsetRef)'
     /\ (/\ WindowAttached /\ phase # "unmounted" /\ overscan = 0
         /\ estimateSize \in {0, 1} /\ measuredCache = EmptyCache
         /\ latestRef.scrollOffset >= 0
         /\ latestRef.scrollOffset < size * EstimateSize(estimateSize, 0)
         /\ latestRef.outerSize > 0)'
        => (virtualItems[1].index
              = latestRef.scrollOffset \div EstimateSize(estimateSize, 0))'
    ]_vars

\* The hook of the window tests has rendered the window scrolled to 100, the
\* container at the top of the document.
C11_Witness ==
  /\ WindowAttached /\ phase = "idle" /\ ~scrollPending
  /\ size = WindowTestSize /\ estimateSize = 0 /\ overscan = 0
  /\ latestRef.outerSize = WindowTestHeight
  /\ parentOffsetRef = 0 /\ scrollTop = WindowTestScrollY
  /\ latestRef.scrollOffset = WindowTestScrollY
  /\ virtualItems[1].index = 2

\* C12: a call of the window source's scrollToFn with (offset, reason), the
\* window being there, moves the window to offset plus the static offset for
\* the reasons ToIndex and SizeChanged and to offset itself for ToOffset (to
\* the nearest position the window can scroll to); and when the window went
\* exactly there and the listener then receives the scroll event, the reported
\* offset is offset for ToIndex and SizeChanged and offset minus the static
\* offset for ToOffset.
Translated(reason) == reason \in {"ToIndex", "SizeChanged"}

C12_WindowWrite ==
  [][/\ (useWindow /\ windowRef # 0 /\ writes' # <<>>)
        => LET w == writes'[1]
               target == w.offset + (IF Translated(w.reason) THEN parentOffsetRef ELSE 0)
           IN scrollTop' \in {WindowScrollTo(target), WindowScrollTo(target + w.half)}
     /\ (/\ WindowAttached /\ windowRef # 0 /\ writes # <<>>
         /\ scrollPending /\ ~scrollPending')
        => LET w == writes[1]
               target == w.offset + (IF Translated(w.reason) THEN parentOffsetRef ELSE 0)
           IN (w.half = 0 /\ scrollTop = target)
                => scrollOffset' = IF Translated(w.reason) THEN w.offset
                                   ELSE w.offset - parentOffsetRef
    ]_vars

\* A correction for a size change has moved the window of a container below
\* the top of the document.
C12_Witness ==
  /\ WindowAttached /\ parentOffsetRef > 0 /\ scrollPending
  /\ writes # <<>> /\ writes[1].reason = "SizeChanged"
  /\ scrollTop = writes[1].offset + parentOffsetRef

\* C13: scrollToOffset(offset, { align }) issues exactly one call of the
\* scroll source's scrollToFn, with the reason ToOffset and the offset: offset
\* for start, offset - viewportSize for end, offset - viewportSize / 2 for
\* center, and for auto offset - viewportSize when offset >= scrollOffset +
\* viewportSize and offset in every other case (scrollOffset and viewportSize
\* being those of the latest render).
C13_Twice(offset, align) ==
  LET so == latestRef.scrollOffset
      viewportSize == latestRef.outerSize
  IN CASE align = "start" -> 2 * offset
       [] align = "end" -> 2 * (offset - viewportSize)
       [] align = "center" -> 2 * offset - viewportSize
       [] align = "auto" -> IF offset >= so + viewportSize
                            THEN 2 * (offset - viewportSize)
                            ELSE 2 * offset

C13_ScrollToOffset ==
  [][\A toOffset \in ImperativeOffsets, align \in Alignments :
       ScrollToOffset(toOffset, align)
         => writes' = <<[offset |-> C13_Twice(toOffset, align) \div 2,
                         half |-> C13_Twice(toOffset, align) % 2,
                         reason |-> "ToOffset"]>>
    ]_vars

\* scrollToOffset has centred an offset in a viewport of an odd size.
C13_Witness ==
  /\ writes # <<>> /\ writes[1].reason = "ToOffset" /\ writes[1].half = 1
  /\ latestRef.outerSize % 2 = 1 /\ latestRef.scrollOffset > 0

\* C14: each pass of scrollToIndex, the one of the call and the one of the
\* animation frame, works on the spans and the scroll snapshot of that moment:
\* for an index the list has, auto is end when span.end >= scrollOffset +
\* viewportSize, else start when span.start <= scrollOffset, else the pass
\* writes nothing; the one write has the reason ToIndex and the offset
\* span.start for start, span.end - viewportSize for end and span.start +
\* span.size / 2 - viewportSize / 2 for center.
C14_Writes(index, align) ==
  LET span == At(Spans, index)
      so == latestRef.scrollOffset
      viewportSize == latestRef.outerSize
      choice == IF align # "auto" THEN align
                ELSE IF span.end >= so + viewportSize THEN "end"
                ELSE IF span.start <= so THEN "start"
                ELSE "none"
      twice == CASE choice = "start" -> 2 * span.start
                 [] choice = "end" -> 2 * (span.end - viewportSize)
                 [] choice = "center" -> 2 * span.start + span.size - viewportSize
                 [] OTHER -> 0
  IN IF choice = "none" THEN <<>>
     ELSE <<[offset |-> twice \div 2, half |-> twice % 2, reason |-> "ToIndex"]>>

InList(index, n) == index >= 0 /\ index <= n - 1 /\ Has(Spans, index)

C14_ScrollToIndexPass ==
  [][/\ \A index \in ImperativeIndexes, align \in Alignments :
          (InList(index, size) /\ ScrollToIndex(index, align))
            => writes' = C14_Writes(index, align)
     /\ (rafQueue # <<>> /\ InList(Head(rafQueue).index, Head(rafQueue).size)
           /\ AnimationFrame)
          => writes' = C14_Writes(Head(rafQueue).index, Head(rafQueue).align)
    ]_vars

\* The pass of the animation frame has centred an item after the list was
\* scrolled and rendered behind the call.
C14_Witness ==
  /\ writes # <<>> /\ writes[1].reason = "ToIndex" /\ writes[1].half = 1
  /\ rafQueue = <<>> /\ latestRef.scrollOffset > 0

\* C15: for every index, negative or beyond the list included, each pass of
\* scrollToIndex issues exactly the writes of the index clamped to
\* min(max(index, 0), itemCount - 1), and with an itemCount of 0 the call
\* issues no scroll write and changes no state (the animation frame it asks
\* for aside).
C15_Clamped(index, n) == Min(Max(index, 0), n - 1)

C15_Pass(index, align, n) ==
  n > 0 => writes' = IF Has(Spans, C15_Clamped(index, n))
                     THEN C14_Writes(C15_Clamped(index, n), align)
                     ELSE <<>>

C15_ScrollToIndexClamps ==
  [][/\ \A index \in ImperativeIndexes, align \in Alignments :
          ScrollToIndex(index, align)
            => /\ C15_Pass(index, align, size)
               /\ size = 0
                    => /\ writes' = <<>>
                       /\ UNCHANGED <<options, cacheVars, refVars, outputs,
                                      scrollVars, sourceVars, phase>>
     /\ (rafQueue # <<>> /\ AnimationFrame)
          => C15_Pass(Head(rafQueue).index, Head(rafQueue).align, Head(rafQueue).size)
    ]_vars

\* C16: a call of scrollToIndex runs the attempt once at once and asks for
\* exactly one animation frame; no step other than the frame itself takes a
\* waiting frame away or changes it, so no later scrollToIndex or
\* scrollToOffset cancels or coalesces it; the frame runs the attempt once,
\* on the spans and the scroll snapshot of the moment it fires; and every
\* waiting frame comes to fire.
C16_Entry(index, align) == [index |-> index, align |-> align, size |-> size]

C16_Steps ==
  /\ \A index \in FrameIndexes, align \in FrameAlignments :
       ScrollToIndex(index, align)
         => /\ C15_Pass(index, align, size)
            /\ rafQueue' = Append(rafQueue, C16_Entry(index, align))
  /\ Len(rafQueue') < Len(rafQueue)
       => /\ rafQueue' = Tail(rafQueue)
          /\ C15_Pass(Head(rafQueue).index, Head(rafQueue).align, Head(rafQueue).size)
          /\ UNCHANGED <<options, cacheVars, refVars, outputs>>
  /\ Len(rafQueue') >= Len(rafQueue)
       => SubSeq(rafQueue', 1, Len(rafQueue)) = rafQueue

C16_DeferredPassRuns ==
  /\ [][C16_Steps]_vars
  /\ (<>[](rafQueue = <<>>) \/ []<><<AnimationFrame>>_vars)

\* Two frames of different calls wait in a list scrolled since the first call.
C16_Witness ==
  /\ Len(rafQueue) = 2 /\ rafQueue[1] # rafQueue[2]
  /\ latestRef.scrollOffset > 0 /\ phase = "idle"

\* C17: when the size an item reports differs from the size of its span,
\* measureRef records it in the measured cache under the key of the item and,
\* exactly when the item starts before the scroll offset of the latest render,
\* advances the tracked offset by delta = reported size - span size and issues
\* one write of the tracked offset with the reason SizeChanged; a report of
\* the span's size changes neither the cache nor a scroll offset.
C17_Report(item, measuredSize) ==
  LET delta == measuredSize - item.size
  IN IF measuredSize # item.size
     THEN /\ queuedCache' = Store(queuedCache, item.key, measuredSize)
          /\ IF item.start < latestRef.scrollOffset
             THEN /\ scrollOffsetWithAdjustmentsRef'
                       = scrollOffsetWithAdjustmentsRef + delta
                  /\ writes' = <<[offset |-> scrollOffsetWithAdjustmentsRef + delta,
                                  half |-> 0, reason |-> "SizeChanged"]>>
             ELSE /\ writes' = <<>>
                  /\ UNCHANGED <<scrollOffsetWithAdjustmentsRef, scrollTop>>
     ELSE /\ writes' = <<>>
          /\ UNCHANGED <<cacheVars, scrollOffsetWithAdjustmentsRef, scrollTop,
                         scrollOffset>>

C17_MeasureRef ==
  [][\A j \in 1 .. Len(virtualItems), s \in MeasuredSizes :
       MeasureRef(j, s) => C17_Report(virtualItems[j], s)
    ]_vars

\* A second item above the viewport has reported in one commit: the tracked
\* offset holds both corrections.
C17_Witness ==
  /\ phase = "commit" /\ Cardinality(pendingMeasuredCacheIndexesRef) >= 2
  /\ writes # <<>> /\ writes[1].reason = "SizeChanged"
  /\ scrollOffsetWithAdjustmentsRef = latestRef.scrollOffset - 2
  /\ writes[1].offset = scrollOffsetWithAdjustmentsRef

\* C18: no recomputation reads a measured cache holding the new size of an
\* item above the fold together with a scroll offset without the delta of
\* that size, nor a corrected offset without the new size: at every render,
\* the scroll offset it reads is that of the render before plus the deltas of
\* the sizes reported since by items that started before that offset, and the
\* cache it reads holds each of those sizes.
RenderStep == phase # "commit" /\ phase' = "commit"

AboveTheFold ==
  {i \in pendingMeasuredCacheIndexesRef :
     Has(Spans, i) /\ At(Spans, i).start < latestRef.scrollOffset}

RECURSIVE SumOfDeltas(_)
SumOfDeltas(S) ==
  IF S = {} THEN 0
  ELSE LET i == CHOOSE x \in S : TRUE
       IN (Lookup(queuedCache, KeyOf(i)) - At(Spans, i).size) + SumOfDeltas(S \ {i})

C18_SingleUnit ==
  [][(RenderStep /\ AboveTheFold # {})
       => /\ \A i \in AboveTheFold : Lookup(queuedCache, KeyOf(i)) # NoSize
          /\ scrollOffset = latestRef.scrollOffset + SumOfDeltas(AboveTheFold)
    ]_vars

\* C19: the recomputation that follows resetMeasurements() reads an empty
\* measured cache and gives every span the estimate of its index, whatever
\* was reported before the reset, in the same pass included; and a second
\* resetMeasurements() right after the first changes nothing.
ResetPending == cacheDirty /\ queuedCache = EmptyCache

C19_ResetRestoresEstimates ==
  [][/\ (ResetPending /\ RenderStep)
        => /\ measuredCache' = EmptyCache
           /\ \A i \in 0 .. size' - 1 :
                At(latestRef'.measurements, i).size = EstimateSize(estimateSize', i)
     /\ (ResetPending /\ Measure)
        => UNCHANGED <<options, cacheVars, refVars, outputs, scrollVars, sourceVars,
                       rafQueue, phase>>
    ]_vars

\* C20: the layout effect of a commit whose estimator is another function
\* than that of the commit before clears the measured cache wholesale, and
\* the recomputation that follows gives every span the value of the new
\* estimator; the layout effect of the mount clears nothing; and neither a
\* layout effect with the estimator unchanged nor a recomputation clears.
EffectStep == phase = "commit" /\ phase' = "idle"

C20_EstimatorChangeClears ==
  [][/\ EffectStep
        => queuedCache' = IF mountedRef /\ effectDeps # estimateSize
                          THEN EmptyCache ELSE queuedCache
     /\ RenderStep => queuedCache' = queuedCache
     /\ (ResetPending /\ RenderStep /\ estimateSize' = estimateSize)
        => /\ measuredCache' = EmptyCache
           /\ \A i \in 0 .. size' - 1 :
                At(latestRef'.measurements, i).size = EstimateSize(estimateSize', i)
    ]_vars

\* C21: without a reset or an estimator change no entry of the measured
\* cache goes away, a recomputation included; the entries whose key no index
\* below the item count has change no span and not the total size (the
\* recomputation gives what it gives without them); and when a render's item
\* count or key map gives an index the key of such an entry, the span of that
\* index has the stored size.
LiveKeys(k, n) == {KeyExtractor(k, i) : i \in 0 .. n - 1}
Restrict(cache, keys) == [key \in DOMAIN cache \cap keys |-> cache[key]]

C21_Recomputes ==
  \/ phase = "unmounted" \/ cacheDirty
  \/ size' # size \/ keyExtractor' # keyExtractor
  \/ estimateSize' # estimateSize \/ paddingStart' # paddingStart

C21_WithoutInert ==
  IF C21_Recomputes
  THEN Measurements(latestRef.measurements, pendingMeasuredCacheIndexesRef, size',
                    Restrict(queuedCache, LiveKeys(keyExtractor', size')),
                    estimateSize', keyExtractor', paddingStart')
  ELSE latestRef.measurements

C21_EntriesPersist ==
  [][/\ \A key \in DOMAIN queuedCache : key \in DOMAIN queuedCache'
     /\ RenderStep
        => /\ measuredCache' = queuedCache
           /\ latestRef'.measurements = C21_WithoutInert
           /\ latestRef'.totalSize = TotalSize(C21_WithoutInert, size', paddingEnd')
           /\ \A i \in 0 .. size' - 1 :
                LET key == KeyExtractor(keyExtractor', i)
                IN (/\ key \in DOMAIN queuedCache
                    /\ phase # "unmounted"
                    /\ key \notin LiveKeys(keyExtractor, size))
                   => At(latestRef'.measurements, i).size = queuedCache[key]
    ]_vars

\* C22: for spans of sizes >= 0, whose starts do not decrease and may be
\* equal, and every scroll offset, the start of the located range is the
\* greatest index whose span starts at or before the scroll offset, and 0 when
\* no span does.
StartsAtOrBefore(m, offset) == {i \in 0 .. Len(m) - 1 : At(m, i).start <= offset}
SetMax(S) == CHOOSE x \in S : \A y \in S : x >= y

C22_LocatorGreatest ==
  phase = "return" =>
    LET found == StartsAtOrBefore(latestRef.measurements, latestRef.scrollOffset)
    IN range.start = IF found = {} THEN 0 ELSE SetMax(found)

\* C23: after every recomputation, whatever was reported, reset or changed
\* before it, the spans of the memo, which keeps the spans below the lowest
\* index with a pending report, are as many as, and have the starts, sizes and
\* ends of, the spans a recomputation from index 0 gives for the same item
\* count, estimator, measured cache, key map and paddingStart.
C23_SameSpans(a, b) ==
  /\ Len(a) = Len(b)
  /\ \A i \in 0 .. Len(a) - 1 :
       /\ At(a, i).start = At(b, i).start
       /\ At(a, i).size = At(b, i).size
       /\ At(a, i).end = At(b, i).end

C23_IncrementalIsFull ==
  Rendered =>
    C23_SameSpans(Spans, FullMeasurements(size, measuredCache, estimateSize,
                                          keyExtractor, paddingStart))

\* C24: for either scroll source, whatever targets its ref is pointed at
\* (another one, null and back) and whatever the axis: never more than one
\* scroll listener is registered, so the one before is off when a new one is
\* on; once a change is processed (rendered and its effect run) the one
\* listener is on the target of the ref, for the axis in use, and with a null
\* target no listener is left and the reported scroll offset is 0; and with a
\* null target a call of scrollToFn moves nothing.
Processed == phase = "idle" /\ element = TargetRef /\ ~ScrollDepsChanged

C24_Subscription ==
  [][/\ Len(listeners') <= 1
     /\ Processed'
        => listeners' = IF TargetRef' = 0 THEN <<>>
                        ELSE <<Listener(TargetRef', horizontal')>>
     /\ (Processed' /\ TargetRef' = 0) => scrollOffset' = 0
     /\ (TargetRef = 0 /\ writes' # <<>>)
        => scrollTop' = scrollTop /\ scrollPending' = scrollPending
    ]_vars

\* scrollToOffset has been called on a source whose target went to null after
\* it was scrolled, the axis having changed: nothing listens, the reported
\* offset is 0 and the position is where it was.
C24_Witness ==
  /\ Processed /\ TargetRef = 0 /\ horizontal /\ writes # <<>>
  /\ listeners = <<>> /\ scrollOffset = 0 /\ scrollTop > 0

\* C25: in the hook with the isScrolling flag, every scroll notification sets
\* isScrolling and leaves exactly one settle timer waiting, a new one, which
\* scrollingIdRef holds: never more than one timer waits; isScrolling goes
\* back to false only by the timer of the last notification having waited
\* for the whole delay; and when the notifications stop, isScrolling of a
\* mounted hook comes to be false.
C25_Steps ==
  /\ (\E y \in 0 .. MaxOffset : JsOnScroll(y))
       => /\ isScrolling'
          /\ scrollingIdRef' # 0
          /\ timers' = requestTimeout(NoTimers, scrollingIdRef')
  /\ Cardinality(DOMAIN timers') <= 1
  /\ (isScrolling /\ ~isScrolling')
       => /\ DOMAIN timers = {scrollingIdRef}
          /\ timers[scrollingIdRef] >= ResetScrollingTimeoutDelay

C25_SettleTimer ==
  /\ [][C25_Steps]_vars
  /\ \/ <>[](~isScrolling \/ ~isMountedRef)
     \/ []<><<ScrollNotification>>_vars

\* The list is scrolling, its timer restarted by a second notification after
\* time had passed.
C25_Witness ==
  /\ isScrolling /\ isMountedRef /\ scrollingIdRef # 0
  /\ timers = requestTimeout(NoTimers, scrollingIdRef)
  /\ range.start > 0

\* C26: the teardown of the hook with the isScrolling flag cancels the settle
\* timer that waits, so that once the hook is torn down no timer waits or
\* fires, and isScrolling is not set again.
C26_TeardownCancels ==
  [][/\ (phase' = "destroyed") => timers' = NoTimers
     /\ (phase = "destroyed") => isScrolling' = isScrolling
    ]_vars

\* C27: when several items that start before the scroll offset report new
\* sizes in one commit, before a new scroll offset is reported and with the
\* element where the reports so far have put it, the write of each report
\* requests the reported scroll offset plus the deltas of all the reports of
\* the commit up to it, its own included; and the render that reads another
\* scroll offset than the one before sets the tracked offset to it.
C27_Reported ==
  {i \in 0 .. Len(Spans) - 1 :
     Lookup(queuedCache, KeyOf(i)) # Lookup(measuredCache, KeyOf(i))}

C27_Above == {i \in C27_Reported : At(Spans, i).start < latestRef.scrollOffset}

C27_Requested == latestRef.scrollOffset + SumOfDeltas(C27_Above)

C27_ReportWrites ==
  /\ phase = "commit" /\ phase' = "commit"
  /\ queuedCache' # queuedCache /\ writes' # <<>>

C27_DeltasAccumulate ==
  [][/\ (C27_ReportWrites /\ scrollTop = C27_Requested)
        => writes'[1].offset = C27_Requested'
     /\ (RenderStep /\ phase # "unmounted" /\ latestRef.scrollOffset # scrollOffset)
        => scrollOffsetWithAdjustmentsRef' = scrollOffset
    ]_vars

\* C28: with no size changing between the two passes of scrollToIndex(i)
\* with the alignment auto, and the offset the first pass requested applied,
\* reported and rendered, the pass of the animation frame leaves the scroll
\* position where the first pass put it, for an item larger than the viewport
\* as for any other.
C28_FrameRuns == rafQueue # <<>> /\ rafQueue' = Tail(rafQueue)

C28_SecondPassStays ==
  [][(/\ C28_FrameRuns /\ Head(rafQueue).align = "auto"
      /\ scrollTop = scrollOffset /\ scrollOffset = latestRef.scrollOffset)
       => scrollTop' = scrollTop
    ]_vars

=============================================================================
